---------------------------- MODULE Spec2Model ----------------------------
(***************************************************************************)
(* A model of the stock-query skill: src/router.py (query parsing),        *)
(* src/main.py (dispatch) and src/adapters/akshare_adapter.py (the         *)
(* candidate resolver, the operation adapters and the overview             *)
(* aggregator).                                                            *)
(*                                                                         *)
(* Conventions.  A Python str is a sequence of one-character strings (a    *)
(* "text"); a literal that is only ever compared as a whole is a text of   *)
(* one token.  A Chinese character is one character, written as its        *)
(* pinyin (with a digit after it where two characters share a pinyin).     *)
(* None is the token None (for a name) or the text NoneT.                  *)
(* An upstream call either raises (kind "raise", with the text of the      *)
(* exception) or returns a payload (kind "ok"); a payload is None          *)
(* (type "none") or a table of rows (type "table").                        *)
(***************************************************************************)
EXTENDS Integers, Sequences, FiniteSets, TLC

VARIABLES
    pc,         \* position of the request: "start", a step of an operation, "done"
    req,        \* the input of the request
    ak,         \* the upstream capability: [ready, has, out, byfn]
    now,        \* the clock, as a day ordinal (datetime.now())
    calls,      \* ghost: the upstream invocations made so far, in order
    sections,   \* stock_overview: the sections dict
    scan,       \* stock_overview: the locals of the 10-day limit scan
    poolenv,    \* the limit-pool functions during the scan: [kind, flips]
    result      \* the value returned (or the exception raised) by the operation

vars == <<pc, req, ak, now, calls, sections, scan, poolenv, result>>

\* ------------------------------------------------------------- bounds

MaxCands == 2
MaxArgs == 2
MaxTicks == 1       \* the midnights that pass during one request
MaxFlips == 1       \* the changes of behaviour of the limit-pool functions during one scan

\* ------------------------------------------------------------- values

None == "None"
NoneT == <<"None">>
NoPayload == [type |-> "none"]
Table(rows) == [type |-> "table", rows |-> rows]
Raise(msg) == [kind |-> "raise", msg |-> msg]
Ok(payload) == [kind |-> "ok", payload |-> payload]

\* "sep".join(parts), parts a sequence of texts
RECURSIVE Join(_, _)
Join(parts, sep) ==
    IF parts = <<>> THEN <<>>
    ELSE IF Len(parts) = 1 THEN parts[1]
    ELSE parts[1] \o <<sep>> \o Join(Tail(parts), sep)

\* str(kwargs): the tokens of a keyword-argument dict, a sequence of <<key, text>>
RECURSIVE KwText(_)
KwText(kw) ==
    IF kw = <<>> THEN <<>>
    ELSE <<kw[1][1], "=">> \o kw[1][2] \o <<",">> \o KwText(Tail(kw))

\* --------------------------------------------------- the capability

\* getattr(self._ak, fn_name, None) is not None
HasApi(cap, fn) == fn \in cap.has

\* func(**kwargs): the outcome of one upstream call
\* (cap.out gives the outcome of a call by its arguments, cap.byfn the
\* outcome of every other call of a function)
Invoke(cap, fn, kw) ==
    IF <<fn, kw>> \in DOMAIN cap.out THEN cap.out[<<fn, kw>>]
    ELSE IF fn \in DOMAIN cap.byfn THEN cap.byfn[fn]
    ELSE Raise(<<"unavailable">>)

\* self._ak.<fn>(**kwargs) written as an attribute access: a missing
\* attribute raises AttributeError inside the caller's try block
InvokeAttr(cap, fn, kw) ==
    IF HasApi(cap, fn) THEN Invoke(cap, fn, kw)
    ELSE Raise(<<"AttributeError ", fn>>)

\* one entry of the log of upstream invocations: what was called and whether
\* it returned ("ok") or raised ("raise")
Call(fn, kw, out) == [fn |-> fn, kw |-> kw, kind |-> out.kind]

\* the log of self._ak.<fn>(**kwargs): nothing is invoked when the
\* attribute is missing
AttrLog(cap, fn, kw) ==
    IF fn \in cap.has THEN <<Call(fn, kw, Invoke(cap, fn, kw))>> ELSE <<>>

\* ------------------------------------------- _call_api_candidates

\* f"{fn_name}({kwargs}): {exc}"
ErrorEntry(fn, kw, msg) == <<fn, "(">> \o KwText(kw) \o <<"): ">> \o msg

\* kwargs_list or [{}]
ArgsPool(kwargs_list) == IF kwargs_list = <<>> THEN << <<>> >> ELSE kwargs_list

\* "; ".join(errors) if errors else "no callable api found"
ErrorTrace(errors) ==
    IF errors # <<>> THEN Join(errors, "; ") ELSE <<"no callable api found">>

RECURSIVE TryCandidates(_, _, _, _, _)
RECURSIVE TryArgs(_, _, _, _, _, _)

\* (mutant) a success does not end the inner loop while argument sets remain
TryArgsKeepsGoing(cap, candidates, i, j, errors, log) ==
    LET fn == candidates[i].fn
        pool == ArgsPool(candidates[i].kwargs_list)
    IN  IF j > Len(pool) THEN TryCandidates(cap, candidates, i + 1, errors, log)
        ELSE LET kw == pool[j]
                 out == Invoke(cap, fn, kw)
                 log2 == Append(log, Call(fn, kw, out))
             IN  IF out.kind = "ok" /\ j = Len(pool)
                 THEN [api |-> fn, payload |-> out.payload, err |-> <<>>, calls |-> log2]
                 ELSE TryArgs(cap, candidates, i, j + 1,
                              IF out.kind = "ok" THEN errors
                              ELSE Append(errors, ErrorEntry(fn, kw, out.msg)), log2)

\* (mutant) a failed attempt is retried once and its first error is dropped
TryArgsDropsError(cap, candidates, i, j, errors, log) ==
    LET fn == candidates[i].fn
        pool == ArgsPool(candidates[i].kwargs_list)
    IN  IF j > Len(pool) THEN TryCandidates(cap, candidates, i + 1, errors, log)
        ELSE LET kw == pool[j]
                 out == Invoke(cap, fn, kw)
                 log2 == Append(log, Call(fn, kw, out))
             IN  IF out.kind = "ok"
                 THEN [api |-> fn, payload |-> out.payload, err |-> <<>>, calls |-> log2]
                 ELSE TryArgs(cap, candidates, i, j + 1,
                              IF j = 1 THEN errors
                              ELSE Append(errors, ErrorEntry(fn, kw, out.msg)), log2)

\* (mutant) the last argument set of an operation is tried first
TryArgsReordered(cap, candidates, i, j, errors, log) ==
    LET fn == candidates[i].fn
        pool == ArgsPool(candidates[i].kwargs_list)
    IN  IF j > Len(pool) THEN TryCandidates(cap, candidates, i + 1, errors, log)
        ELSE LET kw == pool[Len(pool) + 1 - j]
                 out == Invoke(cap, fn, kw)
                 log2 == Append(log, Call(fn, kw, out))
             IN  IF out.kind = "ok"
                 THEN [api |-> fn, payload |-> out.payload, err |-> <<>>, calls |-> log2]
                 ELSE TryArgs(cap, candidates, i, j + 1,
                              Append(errors, ErrorEntry(fn, kw, out.msg)), log2)

\* (mutant) a call that returns None counts as no answer: the next argument
\* set is tried
TryArgsSkipsNone(cap, candidates, i, j, errors, log) ==
    LET fn == candidates[i].fn
        pool == ArgsPool(candidates[i].kwargs_list)
    IN  IF j > Len(pool) THEN TryCandidates(cap, candidates, i + 1, errors, log)
        ELSE LET kw == pool[j]
                 out == Invoke(cap, fn, kw)
                 log2 == Append(log, Call(fn, kw, out))
             IN  IF out.kind = "ok" /\ out.payload.type # "none"
                 THEN [api |-> fn, payload |-> out.payload, err |-> <<>>, calls |-> log2]
                 ELSE TryArgs(cap, candidates, i, j + 1,
                              IF out.kind = "ok" THEN errors
                              ELSE Append(errors, ErrorEntry(fn, kw, out.msg)), log2)

\* the inner loop: the argument sets of candidate i from position j on
TryArgs(cap, candidates, i, j, errors, log) ==
    LET fn == candidates[i].fn
        pool == ArgsPool(candidates[i].kwargs_list)
    IN  IF j > Len(pool) THEN TryCandidates(cap, candidates, i + 1, errors, log)
        ELSE LET kw == pool[j]
                 out == Invoke(cap, fn, kw)
                 log2 == Append(log, Call(fn, kw, out))
             IN  IF out.kind = "ok"
                 THEN [api |-> fn, payload |-> out.payload, err |-> <<>>, calls |-> log2]
                 ELSE TryArgs(cap, candidates, i, j + 1,
                              Append(errors, ErrorEntry(fn, kw, out.msg)), log2)

\* (mutant) an operation that does not exist leaves an entry in the trace
TryCandidatesTracesMissing(cap, candidates, i, errors, log) ==
    IF i > Len(candidates)
    THEN [api |-> None, payload |-> NoPayload, err |-> ErrorTrace(errors), calls |-> log]
    ELSE IF ~HasApi(cap, candidates[i].fn)
         THEN TryCandidates(cap, candidates, i + 1,
                            Append(errors, <<candidates[i].fn, ": not found">>), log)
         ELSE TryArgs(cap, candidates, i, 1, errors, log)

\* the outer loop: the candidates from position i on
TryCandidates(cap, candidates, i, errors, log) ==
    IF i > Len(candidates)
    THEN [api |-> None, payload |-> NoPayload, err |-> ErrorTrace(errors), calls |-> log]
    ELSE IF ~HasApi(cap, candidates[i].fn)
         THEN TryCandidates(cap, candidates, i + 1, errors, log)
         ELSE TryArgs(cap, candidates, i, 1, errors, log)

CallApiCandidates(cap, candidates) == TryCandidates(cap, candidates, 1, <<>>, <<>>)

\* ------------------------------------------------------------- text

Uppers == <<"A","B","C","D","E","F","G","H","I","J","K","L","M",
            "N","O","P","Q","R","S","T","U","V","W","X","Y","Z">>
Lowers == <<"a","b","c","d","e","f","g","h","i","j","k","l","m",
            "n","o","p","q","r","s","t","u","v","w","x","y","z">>
Digits == <<"0","1","2","3","4","5","6","7","8","9">>

\* str.lower(), one character
LowerChar(c) ==
    IF \E n \in 1..Len(Uppers) : Uppers[n] = c
    THEN Lowers[CHOOSE n \in 1..Len(Uppers) : Uppers[n] = c]
    ELSE c

\* str.lower()
Lower(s) == [n \in 1..Len(s) |-> LowerChar(s[n])]

\* s.startswith(prefix)
StartsWith(s, prefix) ==
    Len(s) >= Len(prefix) /\ SubSeq(s, 1, Len(prefix)) = prefix

\* sub in s
Contains(s, sub) ==
    \E n \in 0..(Len(s) - Len(sub)) : SubSeq(s, n + 1, n + Len(sub)) = sub

\* s.replace(pat, ""): the occurrences of pat, left to right, not overlapping
RECURSIVE Remove(_, _)
Remove(s, pat) ==
    IF Len(s) < Len(pat) THEN s
    ELSE IF SubSeq(s, 1, Len(pat)) = pat
         THEN Remove(SubSeq(s, Len(pat) + 1, Len(s)), pat)
         ELSE <<s[1]>> \o Remove(Tail(s), pat)

\* the decimal digits of n, zero-padded to width w
RECURSIVE Pad(_, _)
Pad(n, w) ==
    IF w = 0 THEN <<>> ELSE Pad(n \div 10, w - 1) \o <<Digits[(n % 10) + 1]>>

\* reversed(seq)
Reverse(seq) == [n \in 1..Len(seq) |-> seq[Len(seq) + 1 - n]]

\* seq[:n]
Head_(seq, n) == SubSeq(seq, 1, IF n < Len(seq) THEN n ELSE Len(seq))

IsDigit(c) == \E n \in 1..Len(Digits) : Digits[n] = c

\* every character of s[from..to] is a digit
AllDigits(s, from, to) ==
    to <= Len(s) /\ \A n \in from..to : IsDigit(s[n])

\* str.strip() (of blanks)
RECURSIVE LStrip(_)
LStrip(s) == IF s # <<>> /\ s[1] = " " THEN LStrip(Tail(s)) ELSE s
Strip(s) == Reverse(LStrip(Reverse(LStrip(s))))

\* int(digits)
RECURSIVE ParseInt(_)
ParseInt(ds) ==
    IF ds = <<>> THEN 0
    ELSE 10 * ParseInt(SubSeq(ds, 1, Len(ds) - 1))
         + (CHOOSE d \in 0..9 : Digits[d + 1] = ds[Len(ds)])

\* ------------------------------------------------------------ dates

\* The clock is a day ordinal (date.toordinal(): 0001-01-01 is day 1).
\* The civil date of an ordinal n >= 1, as <<year, month, day>>.
CivilOfMonth(era, yoe, m, d) == <<yoe + era * 400 + (IF m <= 2 THEN 1 ELSE 0), m, d>>

CivilOfMp(era, yoe, doy, mp) ==
    CivilOfMonth(era, yoe, IF mp < 10 THEN mp + 3 ELSE mp - 9, doy - (153 * mp + 2) \div 5 + 1)

CivilOfDoy(era, yoe, doy) == CivilOfMp(era, yoe, doy, (5 * doy + 2) \div 153)

CivilOfYoe(era, doe, yoe) ==
    CivilOfDoy(era, yoe, doe - (365 * yoe + yoe \div 4 - yoe \div 100))

CivilOfDoe(era, doe) ==
    CivilOfYoe(era, doe, (doe - doe \div 1460 + doe \div 36524 - doe \div 146096) \div 365)

CivilOfShifted(z) == CivilOfDoe(z \div 146097, z % 146097)

CivilFromOrdinal(n) == CivilOfShifted(n + 305)

\* strftime("%Y%m%d")
Ymd(c) == Pad(c[1], 4) \o Pad(c[2], 2) \o Pad(c[3], 2)

Strftime(n) == Ymd(CivilFromOrdinal(n))

\* datetime.min and timedelta.max.days: date arithmetic beyond them raises
\* OverflowError
MinOrdinal == 1
MaxTimedeltaDays == 999999999

\* datetime.now() - timedelta(days=days) raises OverflowError
DateMinusOverflows(today, days) ==
    \/ days > MaxTimedeltaDays
    \/ days < -MaxTimedeltaDays
    \/ today - days < MinOrdinal

\* --------------------------------------------------- adapter helpers

ImportError == <<"No module named akshare">>

\* _wrap
Wrap(fn_name, payload) ==
    [kind |-> "result", ok |-> TRUE, source |-> "akshare", api |-> fn_name, data |-> payload]

\* _error
Error(fn_name, message) ==
    [kind |-> "result", ok |-> FALSE, source |-> "akshare", api |-> fn_name, error |-> message]

\* an exception that leaves the operation
Exception(message) == [kind |-> "exception", msg |-> message]

\* what an operation yields: the value returned (or the exception raised)
\* and the upstream invocations it made
Returned(res, log) == [res |-> res, calls |-> log]

\* dict.get(key, default)
Get(d, key, default) == IF key \in DOMAIN d THEN d[key] ELSE default

\* _ready_or_error returns an error (not None)
NotReady(cap) == ~cap.ready

\* _ready_or_error: the error returned when the import failed
ReadyOrError(cap, fn_name) ==
    Error(fn_name, <<"akshare import failed: ">> \o ImportError)

\* Python values returned by _to_records: a list of rows, the str() of the
\* payload, or the payload itself
List(items) == [type |-> "list", items |-> items]
StrOf(data) == [type |-> "str", of |-> data.type]
IsList(v) == v.type = "list"

\* hasattr(df, "iloc")
HasIloc(data) == data.type \in {"table", "badtable"}

\* df.iloc[::-1]
Iloc(data) == IF HasIloc(data) THEN [data EXCEPT !.rows = Reverse(data.rows)] ELSE data

\* a _to_records that clips to top_n also when top_n is 0
ToRecordsClipsZero(data, top_n) ==
    IF data.type = "none" THEN List(<<>>)
    ELSE IF data.type = "table"
         THEN IF top_n >= 0 THEN List(Head_(data.rows, top_n)) ELSE List(data.rows)
    ELSE IF data.type = "badtable" THEN StrOf(data)
    ELSE data
\* a _to_records without the except branch: the payload comes back as it is
ToRecordsNoFallback(data, top_n) ==
    IF data.type = "none" THEN List(<<>>)
    ELSE IF data.type = "table"
         THEN IF top_n > 0 THEN List(Head_(data.rows, top_n)) ELSE List(data.rows)
    ELSE data
\* _to_records
ToRecords(data, top_n) ==
    IF data.type = "none" THEN List(<<>>)
    ELSE IF data.type = "table"
         THEN IF top_n > 0 THEN List(Head_(data.rows, top_n)) ELSE List(data.rows)
    ELSE IF data.type = "badtable" THEN StrOf(data)
    ELSE data

\* _data_len
DataLen(data) == IF data.type \in {"table", "badtable"} THEN Len(data.rows) ELSE 0

\* _normalize_trade_date
TodayTokens == {<<"t","o","d","a","y">>, <<"jin1","ri">>, <<"jin1","tian">>}
YesterdayTokens == {<<"y","e","s","t","e","r","d","a","y">>, <<"zuo","ri">>, <<"zuo","tian">>}
NormalizeTradeDateKeepsSlash(value, today) ==
    IF value = NoneT \/ value = <<>> \/ value \in TodayTokens THEN Strftime(today)
    ELSE IF value \in YesterdayTokens THEN Strftime(today - 1)
    ELSE Remove(value, <<"-">>)
NormalizeTradeDate(value, today) ==
    IF value = NoneT \/ value = <<>> \/ value \in TodayTokens THEN Strftime(today)
    ELSE IF value \in YesterdayTokens THEN Strftime(today - 1)
    ELSE Remove(Remove(value, <<"-">>), <<"/">>)

\* _clean_symbol
CleanSymbol(symbol) ==
    IF symbol = NoneT \/ symbol = <<>> THEN <<>>
    ELSE Remove(Remove(Remove(Lower(symbol), <<"s","z">>), <<"s","h">>), <<"b","j">>)

\* _market_from_symbol
MarketFromSymbol(symbol) ==
    IF StartsWith(symbol, <<"0">>) \/ StartsWith(symbol, <<"3">>) THEN <<"s","z">>
    ELSE IF StartsWith(symbol, <<"8">>) \/ StartsWith(symbol, <<"4">>) THEN <<"b","j">>
    ELSE <<"s","h">>

\* items[0] if isinstance(items, list) and items else {}
EmptyRow == <<>>
FirstOrEmpty(items) ==
    IF IsList(items) /\ items.items # <<>> THEN items.items[1] ELSE EmptyRow

\* ------------------------------------------------ operation adapters
\* Each adapter is given the capability, the clock reading and its
\* arguments, and yields Returned(result, invocations).

\* index_spot
IndexSpot(cap, top_n) ==
    IF NotReady(cap) THEN Returned(ReadyOrError(cap, "stock_zh_index_spot_sina"), <<>>)
    ELSE LET sina == InvokeAttr(cap, "stock_zh_index_spot_sina", <<>>)
             em == InvokeAttr(cap, "stock_zh_index_spot_em", <<>>)
             c1 == AttrLog(cap, "stock_zh_index_spot_sina", <<>>)
             c2 == AttrLog(cap, "stock_zh_index_spot_em", <<>>)
         IN  IF sina.kind = "ok"
             THEN Returned(Wrap("stock_zh_index_spot_sina",
                                [items |-> ToRecords(sina.payload, top_n)]), c1)
             ELSE IF em.kind = "ok"
             THEN Returned(Wrap("stock_zh_index_spot_em",
                                [items |-> ToRecords(em.payload, top_n)]), c1 \o c2)
             ELSE Returned(Error("stock_zh_index_spot_sina",
                                 <<"sina failed: ">> \o sina.msg \o <<"; em failed: ">> \o em.msg),
                           c1 \o c2)

\* stock_kline, the days looked back when no start_date is given
KlineDays(period, top_n) ==
    IF period = <<"weekly">> THEN top_n * 7
    ELSE IF period = <<"monthly">> THEN top_n * 30
    ELSE top_n

\* stock_kline (start_date and end_date are None, as dispatch calls it)
StockKline(cap, today, symbol, period, top_n) ==
    IF NotReady(cap) THEN Returned(ReadyOrError(cap, "stock_zh_a_hist"), <<>>)
    ELSE LET days == KlineDays(period, top_n)
         IN  IF DateMinusOverflows(today, days + 50)
             THEN Returned(Exception(<<"OverflowError">>), <<>>)
             ELSE LET start == Strftime(today - (days + 50))
                      end == NormalizeTradeDate(NoneT, today)
                      kw == << <<"symbol", symbol>>, <<"period", period>>,
                               <<"start_date", start>>, <<"end_date", end>>,
                               <<"adjust", <<>> >> >>
                      out == InvokeAttr(cap, "stock_zh_a_hist", kw)
                      log == AttrLog(cap, "stock_zh_a_hist", kw)
                  IN  IF out.kind = "ok"
                      THEN Returned(Wrap("stock_zh_a_hist",
                                         [symbol |-> symbol, period |-> period,
                                          start_date |-> start, end_date |-> end,
                                          items |-> ToRecords(Iloc(out.payload), top_n)]), log)
                      ELSE Returned(Error("stock_zh_a_hist", out.msg), log)

MinutePeriods == {<<"1">>, <<"5">>, <<"1","5">>, <<"3","0">>, <<"6","0">>}

\* stock_intraday
StockIntraday(cap, symbol, period, top_n) ==
    IF NotReady(cap) THEN Returned(ReadyOrError(cap, "stock_intraday"), <<>>)
    ELSE LET minute_period == IF period \in MinutePeriods THEN period ELSE <<"1">>
             kw1 == << <<"symbol", symbol>>, <<"period", minute_period>>, <<"adjust", <<>> >> >>
             kw2 == << <<"symbol", symbol>> >>
             minute == InvokeAttr(cap, "stock_zh_a_minute", kw1)
             tick == InvokeAttr(cap, "stock_intraday_em", kw2)
             c1 == AttrLog(cap, "stock_zh_a_minute", kw1)
             c2 == AttrLog(cap, "stock_intraday_em", kw2)
         IN  IF minute.kind = "ok"
             THEN Returned(Wrap("stock_zh_a_minute",
                                [symbol |-> symbol, period |-> minute_period,
                                 items |-> ToRecords(Iloc(minute.payload), top_n)]), c1)
             ELSE IF tick.kind = "ok"
             THEN Returned(Wrap("stock_intraday_em",
                                [symbol |-> symbol, period |-> <<"tick">>,
                                 fallback |-> minute.msg,
                                 items |-> ToRecords(tick.payload, top_n)]), c1 \o c2)
             ELSE IF minute.msg # <<>>
             THEN Returned(Error("stock_intraday",
                                 <<"minute failed: ">> \o minute.msg
                                     \o <<"; tick failed: ">> \o tick.msg), c1 \o c2)
             ELSE Returned(Error("stock_intraday", tick.msg), c1 \o c2)

DownApis == <<"stock_zt_pool_dtgc_em", "stock_dt_pool_em">>

\* limit_pool, the loop over the two limit-down operations from position n
\* on: [api, count, items, errors (texts), calls]
RECURSIVE DownLoop(_, _, _, _, _, _)
DownLoop(cap, kw, top_n, n, errors, log) ==
    IF n > Len(DownApis)
    THEN [api |-> None, count |-> 0, items |-> List(<<>>), errors |-> errors, calls |-> log]
    ELSE IF ~HasApi(cap, DownApis[n]) THEN DownLoop(cap, kw, top_n, n + 1, errors, log)
    ELSE LET out == Invoke(cap, DownApis[n], kw)
             log2 == Append(log, Call(DownApis[n], kw, out))
         IN  IF out.kind = "ok"
             THEN [api |-> DownApis[n], count |-> DataLen(out.payload),
                   items |-> ToRecords(out.payload, top_n), errors |-> errors, calls |-> log2]
             ELSE DownLoop(cap, kw, top_n, n + 1,
                           Append(errors, <<DownApis[n], ": ">> \o out.msg), log2)

\* a limit_pool that reports the limit-down errors also after a later success
LimitPoolKeepsError(cap, today, date, top_n) ==
    IF NotReady(cap) THEN Returned(ReadyOrError(cap, "stock_zt_pool_em"), <<>>)
    ELSE LET trade_date == NormalizeTradeDate(date, today)
             kw == << <<"date", trade_date>> >>
             up == InvokeAttr(cap, "stock_zt_pool_em", kw)
             c1 == AttrLog(cap, "stock_zt_pool_em", kw)
         IN  IF up.kind = "raise" THEN Returned(Error("stock_zt_pool_em", up.msg), c1)
             ELSE LET down == DownLoop(cap, kw, top_n, 1, <<>>, c1)
                      up_items == ToRecords(up.payload, top_n)
                      base == [date |-> trade_date,
                               up_count |-> DataLen(up.payload),
                               down_count |-> down.count,
                               up_items |-> up_items,
                               down_items |-> down.items,
                               items |-> up_items]
                      with_api == IF down.api # None THEN [down_api |-> down.api] ELSE <<>>
                      with_error == IF down.errors # <<>>
                                    THEN [down_error |-> Join(down.errors, "; ")] ELSE <<>>
                  IN  Returned(Wrap("stock_zt_pool_em", base @@ with_api @@ with_error),
                               down.calls)

\* limit_pool
LimitPool(cap, today, date, top_n) ==
    IF NotReady(cap) THEN Returned(ReadyOrError(cap, "stock_zt_pool_em"), <<>>)
    ELSE LET trade_date == NormalizeTradeDate(date, today)
             kw == << <<"date", trade_date>> >>
             up == InvokeAttr(cap, "stock_zt_pool_em", kw)
             c1 == AttrLog(cap, "stock_zt_pool_em", kw)
         IN  IF up.kind = "raise" THEN Returned(Error("stock_zt_pool_em", up.msg), c1)
             ELSE LET down == DownLoop(cap, kw, top_n, 1, <<>>, c1)
                      up_items == ToRecords(up.payload, top_n)
                      base == [date |-> trade_date,
                               up_count |-> DataLen(up.payload),
                               down_count |-> down.count,
                               up_items |-> up_items,
                               down_items |-> down.items,
                               items |-> up_items]
                      with_api == IF down.api # None THEN [down_api |-> down.api] ELSE <<>>
                      with_error == IF down.errors # <<>> /\ down.api = None
                                    THEN [down_error |-> Join(down.errors, "; ")] ELSE <<>>
                  IN  Returned(Wrap("stock_zt_pool_em", base @@ with_api @@ with_error),
                               down.calls)

\* max(1, min(top_n, 10))
Clamp10(top_n) == IF top_n > 10 THEN 10 ELSE IF top_n < 1 THEN 1 ELSE top_n

\* news
News(cap, top_n) ==
    IF NotReady(cap) THEN Returned(ReadyOrError(cap, "stock_news_em"), <<>>)
    ELSE LET out == InvokeAttr(cap, "stock_news_em", <<>>)
             log == AttrLog(cap, "stock_news_em", <<>>)
         IN  IF out.kind = "ok"
             THEN Returned(Wrap("stock_news_em",
                                [items |-> ToRecords(out.payload, Clamp10(top_n))]), log)
             ELSE Returned(Error("stock_news_em", out.msg), log)

\* research_report
ResearchReport(cap, symbol, top_n) ==
    IF NotReady(cap) THEN Returned(ReadyOrError(cap, "stock_research_report_em"), <<>>)
    ELSE LET clean_symbol == CleanSymbol(symbol)
             kw == << <<"symbol", clean_symbol>> >>
             out == InvokeAttr(cap, "stock_research_report_em", kw)
             log == AttrLog(cap, "stock_research_report_em", kw)
         IN  IF clean_symbol = <<>>
             THEN Returned(Error("stock_research_report_em", <<"symbol is required">>), <<>>)
             ELSE IF out.kind = "ok"
             THEN Returned(Wrap("stock_research_report_em",
                                [symbol |-> clean_symbol,
                                 items |-> ToRecords(out.payload, Clamp10(top_n))]), log)
             ELSE Returned(Error("stock_research_report_em", out.msg), log)

\* money_flow
MoneyFlow(cap, symbol, top_n) ==
    IF NotReady(cap) THEN Returned(ReadyOrError(cap, "stock_individual_fund_flow"), <<>>)
    ELSE LET clean_symbol == CleanSymbol(symbol)
             market == MarketFromSymbol(clean_symbol)
             kw == << <<"stock", clean_symbol>>, <<"market", market>> >>
             out == InvokeAttr(cap, "stock_individual_fund_flow", kw)
             log == AttrLog(cap, "stock_individual_fund_flow", kw)
         IN  IF out.kind = "ok"
             THEN Returned(Wrap("stock_individual_fund_flow",
                                [scope |-> <<"individual">>, symbol |-> clean_symbol,
                                 market |-> market,
                                 items |-> ToRecords(Iloc(out.payload), top_n)]), log)
             ELSE Returned(Error("stock_individual_fund_flow", out.msg), log)

\* api_name or fn_name
OrName(api_name, fn_name) == IF api_name = None THEN fn_name ELSE api_name

FundamentalCandidates(clean_symbol) ==
    << [fn |-> "stock_financial_abstract_ths",
        kwargs_list |-> << << <<"symbol", clean_symbol>>, <<"indicator", <<"an1","bao","gao","qi">> >> >>,
                           << <<"symbol", clean_symbol>>, <<"indicator", <<"an1","dan","ji3","du">> >> >>,
                           << <<"symbol", clean_symbol>> >>,
                           << <<"stock", clean_symbol>>, <<"indicator", <<"an1","bao","gao","qi">> >> >>,
                           << <<"stock", clean_symbol>> >> >>],
       [fn |-> "stock_financial_analysis_indicator",
        kwargs_list |-> << << <<"symbol", clean_symbol>> >>,
                           << <<"stock", clean_symbol>> >> >>] >>

\* fundamental
Fundamental(cap, symbol, top_n) ==
    IF NotReady(cap) THEN Returned(ReadyOrError(cap, "fundamental"), <<>>)
    ELSE LET clean_symbol == CleanSymbol(symbol)
             r == CallApiCandidates(cap, FundamentalCandidates(clean_symbol))
             items == ToRecords(Iloc(r.payload), top_n)
         IN  IF r.payload.type = "none" THEN Returned(Error("fundamental", r.err), r.calls)
             ELSE Returned(Wrap(OrName(r.api, "fundamental"),
                                [scope |-> <<"fundamental">>, symbol |-> clean_symbol,
                                 latest |-> FirstOrEmpty(items), items |-> items]), r.calls)

\* _filter_records_by_symbol (records a sequence of rows, rows dicts of texts)
key_pool == <<"daima", "gupiaodaima", "zhengquandaima", "symbol", "daimajiancheng">>
RowMatches(row, symbol) ==
    \E n \in 1..Len(key_pool) : key_pool[n] \in DOMAIN row /\ Contains(row[key_pool[n]], symbol)
FilterRecordsBySymbol(records, symbol) ==
    IF symbol = NoneT \/ symbol = <<>> THEN records
    ELSE SelectSeq(records, LAMBDA row : RowMatches(row, symbol))

\* a or b, of two lists
OrRows(a, b) == IF a # <<>> THEN a ELSE b

\* the records of a payload, filtered by the symbol when one is given (all
\* records when none matches), cut to top_n; [] when the payload gave no list
FilteredTop(df, symbol, top_n) ==
    LET records == ToRecords(df, 0)
    IN  IF IsList(records)
        THEN List(Head_(IF symbol # NoneT /\ symbol # <<>>
                        THEN OrRows(FilterRecordsBySymbol(records.items, symbol), records.items)
                        ELSE records.items, top_n))
        ELSE List(<<>>)

NoKw == << <<>> >>
Candidate(fn, kwargs_list) == [fn |-> fn, kwargs_list |-> kwargs_list]
SymbolKw(text) == << <<"symbol", text>> >>

MarketMoneyFlowCandidates ==
    << Candidate("stock_market_fund_flow", NoKw),
       Candidate("stock_hsgt_fund_flow_summary_em", NoKw),
       Candidate("stock_hsgt_north_net_flow_in_em", NoKw),
       Candidate("stock_hsgt_hist_em",
                 << SymbolKw(<<"bei","xiang","zi","jin">>), SymbolKw(<<"hu2","gu","tong">>),
                    SymbolKw(<<"shen","gu","tong">>) >>) >>

\* market_money_flow
MarketMoneyFlow(cap, today, top_n, date) ==
    IF NotReady(cap) THEN Returned(ReadyOrError(cap, "market_money_flow"), <<>>)
    ELSE LET trade_date == NormalizeTradeDate(date, today)
             r == CallApiCandidates(cap, MarketMoneyFlowCandidates)
         IN  IF r.payload.type = "none"
             THEN Returned(Error("market_money_flow", r.err), r.calls)
             ELSE Returned(Wrap(OrName(r.api, "market_money_flow"),
                                [scope |-> <<"market">>, date |-> trade_date,
                                 items |-> ToRecords(Iloc(r.payload), top_n)]), r.calls)

FlowKind == <<"hang","ye","zi","jin","liu">>
SectorMoneyFlowCandidates ==
    << Candidate("stock_sector_fund_flow_rank",
                 << << <<"indicator", <<"jin1","ri">> >>, <<"sector_type", FlowKind>> >>,
                    << <<"indicator", <<"5","ri">> >>, <<"sector_type", FlowKind>> >>,
                    << <<"indicator", <<"1","0","ri">> >>, <<"sector_type", FlowKind>> >>,
                    << <<"symbol", <<"jin1","ri">> >>, <<"sector_type", FlowKind>> >>,
                    << <<"sector_type", FlowKind>> >> >>),
       Candidate("stock_fund_flow_industry",
                 << SymbolKw(<<"jin1","ri">>), SymbolKw(<<"ji4","shi1">>), <<>> >>),
       Candidate("stock_sector_fund_flow_summary",
                 << << <<"sector_type", FlowKind>> >>, <<>> >>) >>

\* sector_money_flow
SectorMoneyFlow(cap, top_n) ==
    IF NotReady(cap) THEN Returned(ReadyOrError(cap, "sector_money_flow"), <<>>)
    ELSE LET r == CallApiCandidates(cap, SectorMoneyFlowCandidates)
         IN  IF r.payload.type = "none"
             THEN Returned(Error("sector_money_flow", r.err), r.calls)
             ELSE Returned(Wrap(OrName(r.api, "sector_money_flow"),
                                [scope |-> <<"sector">>,
                                 items |-> ToRecords(r.payload, top_n)]), r.calls)

\* hk_us_market
HkUsMarket(cap, market, top_n, symbol) ==
    IF NotReady(cap) THEN Returned(ReadyOrError(cap, "hk_us_market"), <<>>)
    ELSE LET normalized_market ==
                 IF market \in {<<"u","s">>, <<"mei","gu">>, <<"u","s","a">>}
                 THEN <<"u","s">> ELSE <<"h","k">>
             candidates == IF normalized_market = <<"h","k">>
                           THEN << Candidate("stock_hk_spot_em", NoKw) >>
                           ELSE << Candidate("stock_us_spot_em", NoKw) >>
             r == CallApiCandidates(cap, candidates)
         IN  IF r.payload.type = "none" THEN Returned(Error("hk_us_market", r.err), r.calls)
             ELSE Returned(Wrap(OrName(r.api, "hk_us_market"),
                                [scope |-> <<"hk_us_market">>, market |-> normalized_market,
                                 items |-> FilteredTop(r.payload, symbol, top_n)]), r.calls)

FuturesCandidates ==
    << Candidate("futures_display_main_sina", NoKw),
       Candidate("match_main_contract", << SymbolKw(<<"c","f","f","e","x">>) >>),
       Candidate("futures_main_sina",
                 << SymbolKw(<<"I","F","0">>), SymbolKw(<<"I","H","0">>),
                    SymbolKw(<<"I","C","0">>) >>) >>
OptionsCandidates ==
    << Candidate("option_current_em", NoKw),
       Candidate("option_cffex_hs300_spot_sina", NoKw),
       Candidate("option_finance_board",
                 << SymbolKw(<<"hua","xia","shang","zheng","5","0","E","T","F","qi","quan1">>),
                    <<>> >>) >>

\* derivatives
Derivatives(cap, scope, symbol, top_n) ==
    IF NotReady(cap) THEN Returned(ReadyOrError(cap, "derivatives"), <<>>)
    ELSE LET normalized_scope ==
                 IF scope \in {<<"option">>, <<"options">>, <<"qi","quan1">>}
                 THEN <<"options">> ELSE <<"futures">>
             r == CallApiCandidates(cap, IF normalized_scope = <<"futures">>
                                         THEN FuturesCandidates ELSE OptionsCandidates)
         IN  IF r.payload.type = "none" THEN Returned(Error("derivatives", r.err), r.calls)
             ELSE Returned(Wrap(OrName(r.api, "derivatives"),
                                [scope |-> normalized_scope, symbol |-> symbol,
                                 items |-> FilteredTop(r.payload, symbol, top_n)]), r.calls)

\* sorted(seq, ...), a stable sort: Lt(a, b) when a is to come before b
StableSort(seq, Lt(_, _)) ==
    LET n == Len(seq)
        pos(i) == 1 + Cardinality({j \in 1..n : \/ Lt(seq[j], seq[i])
                                                \/ (~Lt(seq[i], seq[j]) /\ j < i)})
    IN  [k \in 1..n |-> seq[CHOOSE i \in 1..n : pos(i) = k]]

\* the order of the characters of a date text
DateChars == <<"-", "/", "0", "1", "2", "3", "4", "5", "6", "7", "8", "9">>
CharRank(c) == CHOOSE n \in 1..Len(DateChars) : DateChars[n] = c

\* a < b, of two texts
RECURSIVE TextLess(_, _)
TextLess(a, b) ==
    IF b = <<>> THEN FALSE
    ELSE IF a = <<>> THEN TRUE
    ELSE IF a[1] = b[1] THEN TextLess(Tail(a), Tail(b))
    ELSE CharRank(a[1]) < CharRank(b[1])

DefaultFund == <<"1","5","9","9","1","5">>
DefaultBond == <<"s","h","1","1","3","5","2","7">>

FundCandidates(default_symbol, today) ==
    << Candidate("fund_etf_hist_em",
                 << << <<"symbol", default_symbol>>, <<"period", <<"daily">> >>,
                       <<"start_date", Strftime(today - 90)>>,
                       <<"end_date", Strftime(today)>>, <<"adjust", <<>> >> >> >>),
       Candidate("fund_etf_spot_em", NoKw),
       Candidate("fund_open_fund_daily_em", NoKw) >>

BondCandidates(symbol) ==
    << Candidate("bond_zh_hs_cov_spot", NoKw),
       Candidate("bond_zh_hs_cov_daily",
                 << SymbolKw(IF symbol = NoneT \/ symbol = <<>> THEN DefaultBond
                             ELSE symbol) >>) >>

\* fund_bond, the records of the fund scope
FundRecords(df, clean_symbol, default_symbol, top_n) ==
    LET records == ToRecords(df, 0)
        filtered == IF clean_symbol # <<>>
                    THEN OrRows(FilterRecordsBySymbol(records.items, clean_symbol),
                                records.items)
                    ELSE records.items
        coded == [n \in 1..Len(filtered) |->
                     IF "daima" \in DOMAIN filtered[n] THEN filtered[n]
                     ELSE filtered[n] @@ [daima |-> default_symbol]]
        ordered == IF coded # <<>> /\ "riqi" \in DOMAIN coded[1]
                   THEN StableSort(coded, LAMBDA a, b :
                                     TextLess(Get(b, "riqi", <<>>), Get(a, "riqi", <<>>)))
                   ELSE coded
    IN  IF IsList(records) THEN List(Head_(ordered, top_n)) ELSE List(<<>>)

\* fund_bond
FundBond(cap, today, scope, symbol, top_n) ==
    IF NotReady(cap) THEN Returned(ReadyOrError(cap, "fund_bond"), <<>>)
    ELSE IF scope \notin {<<"bond">>, <<"convertible">>, <<"cb">>}
    THEN LET clean_symbol == CleanSymbol(symbol)
             default_symbol == IF clean_symbol # <<>> THEN clean_symbol ELSE DefaultFund
             r == CallApiCandidates(cap, FundCandidates(default_symbol, today))
         IN  IF r.payload.type = "none" THEN Returned(Error("fund_bond", r.err), r.calls)
             ELSE Returned(Wrap(OrName(r.api, "fund_bond"),
                                [scope |-> <<"fund">>, symbol |-> default_symbol,
                                 items |-> FundRecords(r.payload, clean_symbol,
                                                       default_symbol, top_n)]), r.calls)
    ELSE LET r == CallApiCandidates(cap, BondCandidates(symbol))
         IN  IF r.payload.type = "none" THEN Returned(Error("fund_bond", r.err), r.calls)
             ELSE Returned(Wrap(OrName(r.api, "fund_bond"),
                                [scope |-> <<"bond">>, symbol |-> symbol,
                                 items |-> FilteredTop(r.payload, symbol, top_n)]), r.calls)

MarginCandidates(trade_date, clean_symbol) ==
    << Candidate("stock_margin_detail",
                 << << <<"date", trade_date>>, <<"symbol", clean_symbol>> >>,
                    << <<"date", trade_date>>, <<"stock", clean_symbol>> >>,
                    << <<"date", trade_date>>, <<"code", clean_symbol>> >>,
                    << <<"date", trade_date>> >> >>),
       Candidate("stock_margin_detail_em",
                 << << <<"date", trade_date>> >>, << <<"trade_date", trade_date>> >>, <<>> >>),
       Candidate("stock_margin_underlying_info_szse", NoKw),
       Candidate("stock_margin_underlying_info_sse", NoKw) >>

LhbCandidates(trade_date) ==
    << Candidate("stock_lhb_detail_em",
                 << << <<"start_date", trade_date>>, <<"end_date", trade_date>> >>,
                    << <<"date", trade_date>> >>, <<>> >>),
       Candidate("stock_lhb_ggtj_sina",
                 << SymbolKw(<<"5">>), SymbolKw(<<"1","0">>), <<>> >>) >>

\* margin_lhb, the items kept of one of the two payloads
KeptItems(df, clean_symbol, top_n) ==
    LET records == ToRecords(df, 0)
    IN  IF df.type # "none" /\ IsList(records)
        THEN List(Head_(FilterRecordsBySymbol(records.items, clean_symbol), top_n))
        ELSE List(<<>>)

\* a margin_lhb that leaves the second chain out once the first has answered
MarginLhbStopsEarly(cap, today, symbol, date, top_n) ==
    IF NotReady(cap) THEN Returned(ReadyOrError(cap, "margin_lhb"), <<>>)
    ELSE LET clean_symbol == CleanSymbol(symbol)
             trade_date == NormalizeTradeDate(date, today)
             m == CallApiCandidates(cap, MarginCandidates(trade_date, clean_symbol))
             l == IF m.payload.type # "none"
                  THEN [api |-> None, payload |-> NoPayload, err |-> <<>>, calls |-> <<>>]
                  ELSE CallApiCandidates(cap, LhbCandidates(trade_date))
         IN  IF m.payload.type = "none" /\ l.payload.type = "none"
             THEN Returned(Error("margin_lhb",
                                 <<"margin failed: ">> \o m.err
                                     \o <<"; lhb failed: ">> \o l.err), m.calls \o l.calls)
             ELSE Returned(Wrap("margin_lhb",
                                [scope |-> <<"margin_lhb">>, symbol |-> clean_symbol,
                                 date |-> trade_date,
                                 margin_api |-> m.api, lhb_api |-> l.api,
                                 margin_items |-> KeptItems(m.payload, clean_symbol, top_n),
                                 lhb_items |-> KeptItems(l.payload, clean_symbol, top_n),
                                 margin_error |->
                                     IF m.payload.type = "none" THEN m.err ELSE NoneT,
                                 lhb_error |->
                                     IF l.payload.type = "none" THEN l.err ELSE NoneT]),
                           m.calls \o l.calls)

\* margin_lhb
MarginLhb(cap, today, symbol, date, top_n) ==
    IF NotReady(cap) THEN Returned(ReadyOrError(cap, "margin_lhb"), <<>>)
    ELSE LET clean_symbol == CleanSymbol(symbol)
             trade_date == NormalizeTradeDate(date, today)
             m == CallApiCandidates(cap, MarginCandidates(trade_date, clean_symbol))
             l == CallApiCandidates(cap, LhbCandidates(trade_date))
         IN  IF m.payload.type = "none" /\ l.payload.type = "none"
             THEN Returned(Error("margin_lhb",
                                 <<"margin failed: ">> \o m.err
                                     \o <<"; lhb failed: ">> \o l.err), m.calls \o l.calls)
             ELSE Returned(Wrap("margin_lhb",
                                [scope |-> <<"margin_lhb">>, symbol |-> clean_symbol,
                                 date |-> trade_date,
                                 margin_api |-> m.api, lhb_api |-> l.api,
                                 margin_items |-> KeptItems(m.payload, clean_symbol, top_n),
                                 lhb_items |-> KeptItems(l.payload, clean_symbol, top_n),
                                 margin_error |->
                                     IF m.payload.type = "none" THEN m.err ELSE NoneT,
                                 lhb_error |->
                                     IF l.payload.type = "none" THEN l.err ELSE NoneT]),
                           m.calls \o l.calls)

\* A cell of a row is a text or a float; a float is written as a text of
\* one token, "#" and its value.
FloatTable == ("#-2" :> -2) @@ ("#-1" :> -1) @@ ("#0" :> 0) @@ ("#1" :> 1) @@ ("#2" :> 2)
                 @@ ("#3" :> 3)
IsFloat(v) == Len(v) = 1 /\ v[1] \in DOMAIN FloatTable
FloatCell(n) == << CHOOSE t \in DOMAIN FloatTable : FloatTable[t] = n >>

\* bool(v), of a cell or None
Truthy(v) == v # NoneT /\ v # <<>> /\ ~(IsFloat(v) /\ FloatTable[v[1]] = 0)

\* an Optional[float]
NoFloat == [some |-> FALSE]
SomeFloat(x) == [some |-> TRUE, v |-> x]

\* float(text), of the texts that are a whole number with or without a sign
\* (any other text raises)
IsIntText(t) ==
    \/ t # <<>> /\ AllDigits(t, 1, Len(t))
    \/ Len(t) > 1 /\ t[1] = "-" /\ AllDigits(t, 2, Len(t))
IntOf(t) == IF t[1] = "-" THEN 0 - ParseInt(Tail(t)) ELSE ParseInt(t)

\* _safe_float_local
SafeFloatLocal(value) ==
    IF value = NoneT THEN NoFloat
    ELSE IF IsFloat(value) THEN SomeFloat(FloatTable[value[1]])
    ELSE LET text == Strip(Remove(Remove(value, <<",">>), <<"%">>))
         IN  IF IsIntText(text) THEN SomeFloat(IntOf(text)) ELSE NoFloat

\* x or default, of an Optional[float]
FloatOr(x, default) == IF x.some /\ x.v # 0 THEN x.v ELSE default

\* row.get(a) or row.get(b) or ..., over the keys from position n on
RECURSIVE FirstTruthy(_, _, _)
FirstTruthy(row, keys, n) ==
    IF n = Len(keys) \/ Truthy(Get(row, keys[n], NoneT)) THEN Get(row, keys[n], NoneT)
    ELSE FirstTruthy(row, keys, n + 1)

PctKeys == <<"zhangdiefu", "jinrizhangdiefu", "zhangdiefu%", "zhangdie">>
Unranked == 9999

\* sector_analysis, the sort keys of a row
GainKey(row) == FloatOr(SafeFloatLocal(FirstTruthy(row, PctKeys, 1)), 0 - Unranked)
DropKey(row) == FloatOr(SafeFloatLocal(FirstTruthy(row, PctKeys, 1)), Unranked)

Concept == <<"gai","nian">>
Industry == <<"hang","ye">>

SectorCandidates(normalized, spot_indicator) ==
    << Candidate("stock_sector_name_code",
                 << << <<"indicator", <<"jin1","ri","zhang","die","fu1">> >>,
                       <<"sector_type", normalized>> >> >>),
       Candidate("stock_sector_name_code", << << <<"sector_type", normalized>> >> >>),
       Candidate("stock_sector_spot", << << <<"indicator", spot_indicator>> >> >>) >>

\* sector_analysis
SectorAnalysis(cap, sector_type, top_n) ==
    IF NotReady(cap) THEN Returned(ReadyOrError(cap, "stock_sector_name_code"), <<>>)
    ELSE LET normalized == IF sector_type \in {<<"concept">>, Concept} THEN Concept
                           ELSE Industry
             spot_indicator == IF normalized = Concept THEN Concept
                               ELSE <<"xin","lang","hang","ye">>
             r == CallApiCandidates(cap, SectorCandidates(normalized, spot_indicator))
             records == ToRecords(r.payload, 0)
             by_gain == StableSort(records.items, LAMBDA a, b : GainKey(a) > GainKey(b))
             top_gain == IF IsList(records) THEN List(Head_(by_gain, top_n)) ELSE List(<<>>)
             top_drop == IF IsList(records)
                         THEN List(Head_(StableSort(by_gain,
                                                    LAMBDA a, b : DropKey(a) < DropKey(b)),
                                         top_n))
                         ELSE List(<<>>)
         IN  IF r.payload.type = "none"
             THEN Returned(Error("stock_sector_name_code", r.err), r.calls)
             ELSE Returned(Wrap(OrName(r.api, "stock_sector_name_code"),
                                [scope |-> <<"sector_analysis">>,
                                 sector_type |-> IF normalized = Concept THEN <<"concept">>
                                                 ELSE <<"industry">>,
                                 top_gain |-> top_gain, top_drop |-> top_drop,
                                 items |-> top_gain]), r.calls)

\* str.upper()
UpperChar(c) ==
    IF \E n \in 1..Len(Lowers) : Lowers[n] = c
    THEN Uppers[CHOOSE n \in 1..Len(Lowers) : Lowers[n] = c]
    ELSE c
Upper(s) == [n \in 1..Len(s) |-> UpperChar(s[n])]

\* str(n), n a natural number
RECURSIVE NatText(_)
NatText(n) == IF n < 10 THEN <<Digits[n + 1]>> ELSE NatText(n \div 10) \o <<Digits[(n % 10) + 1]>>

\* str(value), of a cell
StrCell(v) ==
    IF IsFloat(v)
    THEN LET x == FloatTable[v[1]]
         IN  (IF x < 0 THEN <<"-">> \o NatText(0 - x) ELSE NatText(x)) \o <<".", "0">>
    ELSE v

\* stock_pick: pick
RECURSIVE Pick(_, _, _, _)
Pick(item, keys, n, default) ==
    IF n > Len(keys) THEN default
    ELSE IF Get(item, keys[n], NoneT) \notin {NoneT, <<>>} THEN item[keys[n]]
    ELSE Pick(item, keys, n + 1, default)

CodeLen == 6

\* stock_pick: normalize_code
NormalizeCode(value) ==
    IF value = NoneT THEN <<>>
    ELSE LET text == Remove(Remove(Remove(Upper(Strip(StrCell(value))), <<"S","H">>),
                                   <<"S","Z">>), <<"B","J">>)
             digits == SelectSeq(text, IsDigit)
         IN  IF Len(digits) >= CodeLen THEN SubSeq(digits, 1, CodeLen) ELSE text

\* stock_pick: sector_keywords, in the order of the dict
SectorKeywords ==
    << [key |-> <<"ban1","dao1","ti">>,
        words |-> << <<"ban1","dao1","ti">>, <<"xin1","pian">>, <<"ji2","cheng","dian","lu">> >>],
       [key |-> <<"dian","zi1">>,
        words |-> << <<"dian","zi1">>, <<"ke2","ji5">>, <<"ji6","suan","ji7">> >>],
       [key |-> <<"qi3","che">>,
        words |-> << <<"qi3","che">>, <<"xin","neng","yuan","che">>, <<"zheng1","che">>,
                     <<"qi3","pei">> >>],
       [key |-> <<"yi","yao","sheng","wu4">>,
        words |-> << <<"yi","yao">>, <<"yi","liao","qi1","xie">>, <<"zhong","yao">>,
                     <<"sheng","wu4","yi","yao">>, <<"yi","liao">>,
                     <<"yi","yao","sheng","wu4">> >>],
       [key |-> <<"yi","yao">>,
        words |-> << <<"yi","yao">>, <<"yi","liao","qi1","xie">>, <<"zhong","yao">>,
                     <<"sheng","wu4","yi","yao">>, <<"yi","liao">>,
                     <<"yi","yao","sheng","wu4">> >>],
       [key |-> <<"guang","fu3">>,
        words |-> << <<"guang","fu3">>, <<"guang","fu3","fa","dian">>,
                     <<"guang","fu3","she","bei1">> >>],
       [key |-> <<"li3","dian","chi">>,
        words |-> << <<"li3","dian","chi">>, <<"li3","dian">>, <<"dian","chi">>,
                     <<"dong1","li","dian","chi">> >>],
       [key |-> <<"xin","neng","yuan">>,
        words |-> << <<"xin","neng","yuan">>, <<"chu","neng">>, <<"dian","dong1","che">>,
                     <<"dian","dong1","qi3","che">> >>],
       [key |-> <<"yin","hang">>, words |-> << <<"yin","hang">>, <<"yin","hang","gu">> >>],
       [key |-> <<"bao1","xian1">>,
        words |-> << <<"bao1","xian1">>, <<"bao1","xian1","gu">> >>],
       [key |-> <<"zheng","quan">>, words |-> << <<"zheng","quan">>, <<"quan","shang1">> >>],
       [key |-> <<"jin","rong">>,
        words |-> << <<"jin","rong">>, <<"yin","hang">>, <<"bao1","xian1">>,
                     <<"zheng","quan">> >>],
       [key |-> <<"fang","di3","chan">>,
        words |-> << <<"fang","di3","chan">>, <<"di3","chan">>, <<"wu4","ye">> >>],
       [key |-> <<"di3","chan">>,
        words |-> << <<"fang","di3","chan">>, <<"di3","chan">>, <<"wu4","ye">> >>],
       [key |-> <<"dian","li">>,
        words |-> << <<"dian","li">>, <<"dian","li","gu">>, <<"fa","dian">> >>],
       [key |-> <<"chuan","mei1">>,
        words |-> << <<"chuan","mei1">>, <<"ying1","shi4">>, <<"you","xi1">> >>],
       [key |-> <<"jun","gong">>,
        words |-> << <<"jun","gong">>, <<"hang1","tian">>, <<"hang1","kong">>,
                     <<"chuan1","bo">>, <<"guo","fang1">> >>],
       [key |-> <<"ruan","jian1">>,
        words |-> << <<"ruan","jian1">>, <<"hu3","lian","wang">>, <<"ji6","suan","ji7">>,
                     <<"I","T">>, <<"ruan","jian1","kai","fa">> >>],
       [key |-> <<"shi5","pin">>,
        words |-> << <<"shi5","pin">>, <<"ling","shi5">>, <<"shi5","pin","jia","gong">> >>],
       [key |-> <<"yin1","liao1">>, words |-> << <<"yin1","liao1">>, <<"yin1","pin">> >>],
       [key |-> <<"bai","jiu">>,
        words |-> << <<"bai","jiu">>, <<"jiu">>, <<"bai","jiu","gu">> >>],
       [key |-> <<"jia1","dian">>,
        words |-> << <<"jia1","dian">>, <<"bai","se","jia1","dian">>, <<"bing","xi2">> >>],
       [key |-> <<"fang2","zhi2">>,
        words |-> << <<"fang2","zhi2">>, <<"fang2","zhi2","fu4","zhuang">>,
                     <<"fu4","zhuang">> >>] >>

\* stock_pick: sector_map.get(key, key); the entries that differ from their key
SectorMap(key) ==
    IF key = <<"yi","yao">> THEN <<"yi","yao","sheng","wu4">>
    ELSE IF key = <<"guang","fu3">> THEN <<"guang","fu3","she","bei1">>
    ELSE IF key = <<"ruan","jian1">> THEN <<"ruan","jian1","kai","fa">>
    ELSE key

\* stock_pick: the first key one of whose keywords is in the sector text, or None
RECURSIVE TargetSector(_, _)
TargetSector(sector_lower, n) ==
    IF n > Len(SectorKeywords) THEN NoneT
    ELSE IF \E k \in 1..Len(SectorKeywords[n].words) :
               Contains(sector_lower, SectorKeywords[n].words[k])
    THEN SectorKeywords[n].key
    ELSE TargetSector(sector_lower, n + 1)

\* stock_pick: the entry made of one row of a pool of stocks
PickedEntry(code, name, pct_num) ==
    [code |-> code, name |-> IF Truthy(name) THEN StrCell(name) ELSE code,
     pct |-> FloatOr(pct_num, 0)]

PickedStock(row, ck, nk, pk) ==
    PickedEntry(NormalizeCode(Pick(row, ck, 1, NoneT)), Pick(row, nk, 1, <<>>),
                SafeFloatLocal(Pick(row, pk, 1, NoneT)))

\* stock_pick: the entries of the rows that have a code
PickedStocks(rows, ck, nk, pk) ==
    SelectSeq([n \in 1..Len(rows) |-> PickedStock(rows[n], ck, nk, pk)],
              LAMBDA e : e.code # <<>>)

\* sort(key=pct, reverse=True)
ByPct(stocks) == StableSort(stocks, LAMBDA a, b : a.pct > b.pct)

HotTop == 10
MaxReports == 50
TitleLen == 20
FlowTop == 15
Buy == <<"mai","ru">>

\* stock_pick: the entry of report_map a buy-rated row makes
ReportEntry(row) ==
    [report_org |-> Pick(row, <<"jigou">>, 1, <<"ji7","gou">>),
     report_rating |-> StrCell(Pick(row, <<"dongcaipingji", "pingji">>, 1, <<>>)),
     report_title |-> Head_(StrCell(Pick(row, <<"baogaomingcheng">>, 1, <<>>)), TitleLen)]

\* stock_pick: the positions of the first MaxReports rows that rate the code
\* a buy
RatedRows(rows, code) ==
    {n \in 1..Len(Head_(rows, MaxReports)) :
        /\ NormalizeCode(Pick(rows[n], <<"gupiaodaima", "daima">>, 1, NoneT)) = code
        /\ Contains(StrCell(Pick(rows[n], <<"dongcaipingji", "pingji">>, 1, <<>>)), Buy)}

\* stock_pick: report_map.get(code, {}), the first rated row wins
ReportAt(rows, rated) ==
    IF rated = {}
    THEN [report_org |-> <<>>, report_rating |-> <<>>, report_title |-> <<>>]
    ELSE ReportEntry(rows[CHOOSE n \in rated : \A m \in rated : n <= m])

ReportOf(rows, code) == ReportAt(rows, RatedRows(rows, code))

\* hasattr(df, "to_dict") and to_dict returns
RowsOf(out) == IF out.kind = "ok" /\ out.payload.type = "table" THEN out.payload.rows ELSE <<>>

\* stock_pick, the result: "items": selected[:top_n], "count": len(selected)
PickWrap(top_n, selected, log) ==
    Returned(Wrap("stock_pick",
                  [items |-> List(Head_(selected, top_n)), count |-> Len(selected)]), log)

\* stock_pick: the candidates with the report of each
SelectedOf(top_candidates, rows) ==
    [n \in 1..Len(top_candidates) |->
        [name |-> top_candidates[n].name, code |-> top_candidates[n].code,
         pct |-> top_candidates[n].pct]
        @@ ReportOf(rows, top_candidates[n].code)]

\* stock_pick from the candidates on: the sector money flow, the research
\* reports and the selection
PickSelect(cap, top_n, top_candidates, log) ==
    PickWrap(top_n,
             SelectedOf(top_candidates, RowsOf(InvokeAttr(cap, "stock_research_report_em", <<>>))),
             log \o SectorMoneyFlow(cap, FlowTop).calls
                 \o AttrLog(cap, "stock_research_report_em", <<>>))

\* stock_pick with the entries of the hot ranking
PickHotItems(cap, top_n, hot_items, log) ==
    IF hot_items = <<>> THEN Returned(Error("stock_pick", <<"hot rank is empty">>), log)
    ELSE PickSelect(cap, top_n, Head_(ByPct(hot_items), HotTop), log)

\* stock_pick with the outcome of the hot ranking (its to_dict is called
\* outside any try)
PickFromHot(cap, top_n, hot, log) ==
    IF hot.kind = "raise"
    THEN Returned(Error("stock_pick", <<"hot rank failed: ">> \o hot.msg), log)
    ELSE IF hot.payload.type = "badtable" THEN Returned(Exception(<<"to_dict failed">>), log)
    ELSE PickHotItems(cap, top_n,
                      PickedStocks(RowsOf(hot),
                                   <<"daima", "gupiaodaima", "zhengquandaima", "symbol">>,
                                   <<"gupiaomingcheng", "mingcheng", "jiancheng", "name">>,
                                   <<"zhangdiefu", "zhangdiefu%">>),
                      log)

\* stock_pick with the stocks of the sector: they are the candidates, or
\* else the hot ranking is
PickHot(cap, top_n, sector_stocks, log) ==
    IF sector_stocks # <<>> THEN PickSelect(cap, top_n, Head_(ByPct(sector_stocks), top_n), log)
    ELSE PickFromHot(cap, top_n, InvokeAttr(cap, "stock_hot_rank_em", <<>>),
                     log \o AttrLog(cap, "stock_hot_rank_em", <<>>))

\* stock_pick with the constituents query of the sector
PickCons(cap, top_n, kw) ==
    PickHot(cap, top_n,
            PickedStocks(RowsOf(InvokeAttr(cap, "stock_board_industry_cons_em", kw)),
                         <<"daima", "gupiaodaima">>, <<"mingcheng", "gupiaomingcheng">>,
                         <<"zhangdiefu">>),
            AttrLog(cap, "stock_board_industry_cons_em", kw))

\* stock_pick with the sector it resolved
PickInSector(cap, top_n, target_sector) ==
    IF target_sector = NoneT THEN PickHot(cap, top_n, <<>>, <<>>)
    ELSE PickCons(cap, top_n, SymbolKw(SectorMap(target_sector)))

\* stock_pick
StockPick(cap, top_n, sector) ==
    IF NotReady(cap) THEN Returned(ReadyOrError(cap, "stock_pick"), <<>>)
    ELSE PickInSector(cap, top_n,
                      IF sector # NoneT /\ sector # <<>>
                      THEN TargetSector(Lower(sector), 1) ELSE NoneT)

\* ------------------------------------------------- stock_overview

SectionOrder == <<"realtime", "money_flow", "fundamental", "limit_stats", "research_report">>
NotCalled == [ok |-> FALSE, error |-> <<"not called">>]

\* the sections dict as stock_overview first builds it
InitialSections ==
    [realtime |-> NotCalled, money_flow |-> NotCalled, fundamental |-> NotCalled,
     limit_stats |-> NotCalled, research_report |-> NotCalled]

\* the section recorded for a failed adapter call: an error result, or an
\* exception caught by the section's try block
FailedSection(res) ==
    IF res.kind = "exception" THEN [ok |-> FALSE, error |-> res.msg]
    ELSE [ok |-> FALSE, api |-> Get(res, "api", None),
          error |-> Get(res, "error", <<"unknown error">>)]

\* rt_res.get("data", {}).get("items", [])
ItemsOf(res) == Get(Get(res, "data", <<>>), "items", List(<<>>))

\* section 1: realtime
RealtimeSection(res) ==
    IF res.kind = "result" /\ res.ok
    THEN [ok |-> TRUE, api |-> Get(res, "api", None), latest |-> FirstOrEmpty(ItemsOf(res))]
    ELSE FailedSection(res)

\* section 2: money flow
MoneyFlowSection(res) ==
    IF res.kind = "result" /\ res.ok
    THEN [ok |-> TRUE, api |-> Get(res, "api", None),
          latest |-> FirstOrEmpty(ItemsOf(res)), items |-> ItemsOf(res)]
    ELSE FailedSection(res)

\* section 3: fundamentals
FundamentalSection(res) ==
    IF res.kind = "result" /\ res.ok
    THEN [ok |-> TRUE, api |-> Get(res, "api", None),
          latest |-> Get(Get(res, "data", <<>>), "latest", EmptyRow),
          items |-> ItemsOf(res)]
    ELSE FailedSection(res)

\* section 5: research reports (items[:3] of a list; of a str, its first
\* three characters)
ReportSection(res) ==
    IF res.kind = "result" /\ res.ok
    THEN [ok |-> TRUE, api |-> Get(res, "api", None),
          items |-> IF IsList(ItemsOf(res)) THEN List(Head_(ItemsOf(res).items, 3))
                    ELSE ItemsOf(res)]
    ELSE FailedSection(res)

ScanDays == 10
ShownErrors == 3
ScanTopN == 300

\* (the keys of a row are whole names: daima is the key of the code column,
\* mingcheng that of the name column, and so on)
code_keys == <<"daima", "gupiaodaima", "zhengquandaima", "symbol">>
name_keys == <<"mingcheng", "gupiaojiancheng", "zhengquanjiancheng", "jiancheng">>

\* _is_target (rows are dicts of texts)
IsTarget(row, symbol, clean_symbol) ==
    \/ \E n \in 1..Len(code_keys) :
          /\ code_keys[n] \in DOMAIN row
          /\ clean_symbol = CleanSymbol(row[code_keys[n]])
    \/ \E n \in 1..Len(name_keys) :
          /\ name_keys[n] \in DOMAIN row
          /\ Contains(symbol, row[name_keys[n]])

\* sum(1 for row in items if _is_target(row)); the characters of a str are
\* no dicts
TargetCount(items, symbol, clean_symbol) ==
    IF IsList(items)
    THEN Cardinality({n \in 1..Len(items.items) : IsTarget(items.items[n], symbol, clean_symbol)})
    ELSE 0

\* payload.get("up_items") or payload.get("items") or []
UpItemsOf(payload) ==
    LET a == Get(payload, "up_items", List(<<>>))
        b == Get(payload, "items", List(<<>>))
    IN  IF ~(IsList(a) /\ a.items = <<>>) THEN a
        ELSE IF ~(IsList(b) /\ b.items = <<>>) THEN b
        ELSE List(<<>>)

\* the locals of the scan before its first day (queried is a ghost: the
\* dates limit_pool was asked for, in order)
InitialScan ==
    [offset |-> 0, limit_up_count |-> 0, limit_down_count |-> 0,
     last_date |-> NoneT, limit_errors |-> <<>>, queried |-> <<>>]

\* one iteration of the scan: the locals after the day at sc.offset, given
\* the result of limit_pool for that day
ScanDay(sc, trade_date, res, symbol, clean_symbol) ==
    IF res.kind = "exception"
    THEN [sc EXCEPT !.offset = @ + 1, !.queried = Append(@, trade_date),
                    !.limit_errors = Append(@, trade_date \o <<": ">> \o res.msg)]
    ELSE IF ~res.ok
    THEN [sc EXCEPT !.offset = @ + 1, !.queried = Append(@, trade_date),
                    !.limit_errors =
                        Append(@, trade_date \o <<": ">> \o Get(res, "error", <<"unknown error">>))]
    ELSE LET payload == Get(res, "data", <<>>)
             up_items == UpItemsOf(payload)
             down_items == Get(payload, "down_items", List(<<>>))
             date == Get(payload, "date", <<>>)
         IN  [sc EXCEPT !.offset = @ + 1, !.queried = Append(@, trade_date),
                        !.last_date = IF @ = NoneT
                                      THEN (IF date # <<>> THEN date ELSE trade_date)
                                      ELSE @,
                        !.limit_up_count = @ + TargetCount(up_items, symbol, clean_symbol),
                        !.limit_down_count = @ + TargetCount(down_items, symbol, clean_symbol)]

\* section 4 as it would be if a scan without one good day were a failure
LimitStatsSectionStrict(sc) ==
    [ok |-> Len(sc.limit_errors) < ScanDays, days |-> ScanDays, date |-> sc.last_date,
     up_count |-> sc.limit_up_count, down_count |-> sc.limit_down_count,
     error |-> IF sc.limit_errors # <<>>
               THEN Join(Head_(sc.limit_errors, ShownErrors), "; ") ELSE NoneT]

\* section 4 as it would be if it were ok only once a day had answered
LimitStatsSectionNeedsDay(sc) ==
    [ok |-> sc.last_date # NoneT, days |-> ScanDays, date |-> sc.last_date,
     up_count |-> sc.limit_up_count, down_count |-> sc.limit_down_count,
     error |-> IF sc.limit_errors # <<>>
               THEN Join(Head_(sc.limit_errors, ShownErrors), "; ") ELSE NoneT]

\* section 4: the limit statistics recorded after the scan
LimitStatsSection(sc) ==
    [ok |-> TRUE, days |-> ScanDays, date |-> sc.last_date,
     up_count |-> sc.limit_up_count, down_count |-> sc.limit_down_count,
     error |-> IF sc.limit_errors # <<>>
               THEN Join(Head_(sc.limit_errors, ShownErrors), "; ") ELSE NoneT]

\* section.get("error") is truthy
HasError(section) ==
    "error" \in DOMAIN section /\ section.error # NoneT /\ section.error # <<>>

\* the texts of the sections' errors, in the order of the dict
RECURSIVE SectionErrors(_, _)
SectionErrors(secs, n) ==
    IF n > Len(SectionOrder) THEN <<>>
    ELSE (IF HasError(secs[SectionOrder[n]]) THEN <<secs[SectionOrder[n]].error>> ELSE <<>>)
         \o SectionErrors(secs, n + 1)

\* the end of stock_overview: the result built from the five sections
OverviewResult(secs, clean_symbol) ==
    IF ~\E n \in 1..Len(SectionOrder) : secs[SectionOrder[n]].ok
    THEN LET combined_error == Join(SectionErrors(secs, 1), "; ")
         IN  Error("stock_overview",
                   IF combined_error # <<>> THEN combined_error ELSE <<"all sub-apis failed">>)
    ELSE Wrap("stock_overview",
              [symbol |-> clean_symbol, realtime |-> secs.realtime,
               money_flow |-> secs.money_flow, fundamental |-> secs.fundamental,
               limit_stats |-> secs.limit_stats, research_report |-> secs.research_report])

\* ---------------------------------------------------------- router.py

INDEX_REALTIME == "INDEX_REALTIME"
KLINE_ANALYSIS == "KLINE_ANALYSIS"
INTRADAY_ANALYSIS == "INTRADAY_ANALYSIS"
LIMIT_STATS == "LIMIT_STATS"
MONEY_FLOW == "MONEY_FLOW"
FUNDAMENTAL == "FUNDAMENTAL"
STOCK_OVERVIEW == "STOCK_OVERVIEW"
MARGIN_LHB == "MARGIN_LHB"
SECTOR_ANALYSIS == "SECTOR_ANALYSIS"
DERIVATIVES == "DERIVATIVES"
FUND_BOND == "FUND_BOND"
HK_US_MARKET == "HK_US_MARKET"
\* main.py imports this tag from router.py, which does not define it; the
\* value is the one dispatch writes into its own result
RESEARCH_REPORT == "RESEARCH_REPORT"
VOLUME_ANALYSIS == "VOLUME_ANALYSIS"
PORTFOLIO == "PORTFOLIO"

\* STOCK_NAME_MAP, in the order of sorted(STOCK_NAME_MAP, key=len, reverse=True):
\* the sort is stable, so names of one length keep the order of the dict
SortedStockNames ==
    << [name |-> <<"gui","zhou1","mao1","tai">>, code |-> <<"6","0","0","5","1","9">>],
       [name |-> <<"ning","de","shi1","dai">>, code |-> <<"3","0","0","7","5","0">>],
       [name |-> <<"zhao","shang1","yin","hang">>, code |-> <<"6","0","0","0","3","6">>],
       [name |-> <<"zhong","guo","ping","an">>, code |-> <<"6","0","1","3","1","8">>],
       [name |-> <<"long1","ji","lv1","neng">>, code |-> <<"6","0","1","0","1","2">>],
       [name |-> <<"yao","ming","kang","de">>, code |-> <<"6","0","3","2","5","9">>],
       [name |-> <<"mei","di1","ji2","tuan">>, code |-> <<"0","0","0","3","3","3">>],
       [name |-> <<"ge","li","dian","qi1">>, code |-> <<"0","0","0","6","5","1">>],
       [name |-> <<"bi","ya","di2">>, code |-> <<"0","0","2","5","9","4">>],
       [name |-> <<"wu","liang","ye1">>, code |-> <<"0","0","0","8","5","8">>],
       [name |-> <<"mao1","tai">>, code |-> <<"6","0","0","5","1","9">>] >>

\* the characters that are not word characters (\w) of a regular expression
NonWordChars == {" ", "-", "/", "&", ".", ",", "?", "%", ":"}
IsWordChar(c) == c \notin NonWordChars
IsUpper(c) == \E n \in 1..Len(Uppers) : Uppers[n] = c

\* \b between s[n] and s[n + 1] (outside the text counts as no word character)
Boundary(s, n) ==
    LET left == n >= 1 /\ n <= Len(s) /\ IsWordChar(s[n])
        right == n + 1 >= 1 /\ n + 1 <= Len(s) /\ IsWordChar(s[n + 1])
    IN  left # right

\* s[from..to] exists and is all digits
\* r"\b(?:sh|sz)?(\d{6})\b" matches at s[n]: the position of the first digit
\* of the group, or 0
CodeMatchAt(s, n) ==
    IF /\ Boundary(s, n - 1) /\ n + 1 <= Len(s)
       /\ SubSeq(s, n, n + 1) \in {<<"s","h">>, <<"s","z">>}
       /\ AllDigits(s, n + 2, n + 7) /\ Boundary(s, n + 7)
    THEN n + 2
    ELSE IF Boundary(s, n - 1) /\ AllDigits(s, n, n + 5) /\ Boundary(s, n + 5)
    THEN n
    ELSE 0

\* the length of the match of r"\b(hk\d{4,5}|[A-Z]{1,5})\b" at s[n], or 0
TickerMatchAt(s, n) ==
    IF ~Boundary(s, n - 1) THEN 0
    ELSE IF /\ n + 1 <= Len(s) /\ SubSeq(s, n, n + 1) = <<"h","k">>
            /\ AllDigits(s, n + 2, n + 6) /\ Boundary(s, n + 6)
    THEN 7
    ELSE IF /\ n + 1 <= Len(s) /\ SubSeq(s, n, n + 1) = <<"h","k">>
            /\ AllDigits(s, n + 2, n + 5) /\ Boundary(s, n + 5)
    THEN 6
    ELSE IF \E k \in 1..5 :
              /\ n + k - 1 <= Len(s)
              /\ \A m \in n..(n + k - 1) : IsUpper(s[m])
              /\ Boundary(s, n + k - 1)
    THEN CHOOSE k \in 1..5 :
              /\ n + k - 1 <= Len(s)
              /\ \A m \in n..(n + k - 1) : IsUpper(s[m])
              /\ Boundary(s, n + k - 1)
    ELSE 0

\* an extractor that looks for a name before it looks for a code
ExtractSymbolNameFirst(query) ==
    LET q == Lower(query)
        codeAt == {n \in 1..Len(q) : CodeMatchAt(q, n) # 0}
        named == {n \in 1..Len(SortedStockNames) : Contains(query, SortedStockNames[n].name)}
        tickAt == {n \in 1..Len(query) : TickerMatchAt(query, n) # 0}
        Min(S) == CHOOSE x \in S : \A y \in S : x <= y
    IN  IF named # {} THEN SortedStockNames[Min(named)].code
        ELSE IF codeAt # {}
        THEN LET g == CodeMatchAt(q, Min(codeAt)) IN SubSeq(q, g, g + 5)
        ELSE IF tickAt # {}
        THEN SubSeq(query, Min(tickAt), Min(tickAt) + TickerMatchAt(query, Min(tickAt)) - 1)
        ELSE NoneT
\* _extract_symbol
ExtractSymbol(query) ==
    LET q == Lower(query)
        codeAt == {n \in 1..Len(q) : CodeMatchAt(q, n) # 0}
        named == {n \in 1..Len(SortedStockNames) : Contains(query, SortedStockNames[n].name)}
        tickAt == {n \in 1..Len(query) : TickerMatchAt(query, n) # 0}
        Min(S) == CHOOSE x \in S : \A y \in S : x <= y
    IN  IF codeAt # {}
        THEN LET g == CodeMatchAt(q, Min(codeAt)) IN SubSeq(q, g, g + 5)
        ELSE IF named # {} THEN SortedStockNames[Min(named)].code
        ELSE IF tickAt # {}
        THEN SubSeq(query, Min(tickAt), Min(tickAt) + TickerMatchAt(query, Min(tickAt)) - 1)
        ELSE NoneT

AnyIn(keywords, text) == \E k \in keywords : Contains(text, k)

\* _classify_intent: the keyword sets of the rules, top to bottom
LimitWords == {<<"zhang","ting">>, <<"die","ting">>, <<"zhang","die","ting">>}
IntradayWords == {<<"fen","shi1">>, <<"pan","kou">>, <<"zhu","bi1">>}
KlineWords == {<<"k","xian">>, <<"K","xian">>, <<"ri","xian">>, <<"zhou2","xian">>, <<"yue","xian">>}
OverviewWords ==
    {<<"zen","me","yang">>, <<"fen","xi">>, <<"kan","xia">>, <<"ping1","gu1">>, <<"zong","he">>}
MoneyFlowWords ==
    {<<"zi","jin","liu">>, <<"zhu1","li","zi","jin">>, <<"bei","xiang","zi","jin">>,
     <<"nan","xiang","zi","jin">>, <<"dong","xiang","zi","jin">>,
     <<"hang","ye","zi","jin">>, <<"ban","kuai","zi","jin">>}
FundamentalWords ==
    {<<"ji","ben","mian">>, <<"cai","bao">>, <<"cai","wu1">>, <<"shi2","ying","lv">>,
     <<"shi2","jing","lv">>, <<"gu1","zhi">>, <<"r","o","e">>, <<"R","O","E">>,
     <<"mao","li2","lv">>, <<"jing","li2","lv">>, <<"zi","chan","fu","zhai","lv">>}
MarginWords ==
    {<<"rong","zi","rong","quan">>, <<"long","hu","bang">>, <<"liang1","rong">>,
     <<"rong","zi","yu","e1">>, <<"rong","quan","yu","e1">>}
HkUsWords ==
    {<<"gang","gu">>, <<"mei","gu">>, <<"na","si","da","ke">>, <<"dao","qiong","si">>,
     <<"biao","pu">>, <<"heng","sheng">>, <<"heng","zhi1">>}
HkUsLowerWords ==
    {<<"n","a","s","d","a","q">>, <<"d","o","w">>, <<"s","p","5","0","0">>, <<"s","&","p">>,
     <<"h","a","n","g"," ","s","e","n","g">>, <<"h","k">>, <<"u","s">>}
DerivativesWords ==
    {<<"qi","huo">>, <<"qi","quan1">>, <<"yan","sheng","pin">>, <<"zhu1","li","he","yue1">>,
     <<"i","f">>, <<"i","h">>, <<"i","c">>, <<"i","m">>}
FundBondWords ==
    {<<"ji","jin">>, <<"jing","zhi">>, <<"ke1","zhuan","zhai">>, <<"zhuan","zhai">>,
     <<"zhai","quan">>, <<"e","t","f">>, <<"E","T","F">>}
SectorWords ==
    {<<"ban","kuai">>, <<"hang","ye">>, <<"gai","nian">>, <<"ti","cai1">>, <<"lun","dong1">>,
     <<"zhang","fu1","bang">>, <<"die","fu1","bang">>}
IndexWords ==
    {<<"da1","pan">>, <<"zhi1","shu">>, <<"shang","zheng">>, <<"shen","zheng">>,
     <<"chuang","ye","ban">>, <<"shi3","shi1">>}

\* a classifier that tries the analysis words before the limit words
ClassifyIntentOverviewFirst(query) ==
    LET q == Lower(query)
    IN  IF AnyIn(OverviewWords, query) THEN STOCK_OVERVIEW
        ELSE IF AnyIn(LimitWords, query) THEN LIMIT_STATS
        ELSE IF AnyIn(IntradayWords, query) THEN INTRADAY_ANALYSIS
        ELSE IF AnyIn(KlineWords, query) \/ Contains(q, <<"k","l","i","n","e">>)
        THEN KLINE_ANALYSIS
        ELSE IF AnyIn(MoneyFlowWords, query) THEN MONEY_FLOW
        ELSE IF AnyIn(FundamentalWords, query) THEN FUNDAMENTAL
        ELSE IF AnyIn(MarginWords, query) THEN MARGIN_LHB
        ELSE IF AnyIn(HkUsWords, query) \/ AnyIn(HkUsLowerWords, q) THEN HK_US_MARKET
        ELSE IF AnyIn(DerivativesWords, query) THEN DERIVATIVES
        ELSE IF AnyIn(FundBondWords, query) THEN FUND_BOND
        ELSE IF AnyIn(SectorWords, query) THEN SECTOR_ANALYSIS
        ELSE IF AnyIn(IndexWords, query) THEN INDEX_REALTIME
        ELSE INDEX_REALTIME
\* a classifier that tries the sector words before the fund and bond words
ClassifyIntentSectorFirst(query) ==
    LET q == Lower(query)
    IN  IF AnyIn(LimitWords, query) THEN LIMIT_STATS
        ELSE IF AnyIn(IntradayWords, query) THEN INTRADAY_ANALYSIS
        ELSE IF AnyIn(KlineWords, query) \/ Contains(q, <<"k","l","i","n","e">>)
        THEN KLINE_ANALYSIS
        ELSE IF AnyIn(OverviewWords, query) THEN STOCK_OVERVIEW
        ELSE IF AnyIn(MoneyFlowWords, query) THEN MONEY_FLOW
        ELSE IF AnyIn(FundamentalWords, query) THEN FUNDAMENTAL
        ELSE IF AnyIn(MarginWords, query) THEN MARGIN_LHB
        ELSE IF AnyIn(HkUsWords, query) \/ AnyIn(HkUsLowerWords, q) THEN HK_US_MARKET
        ELSE IF AnyIn(DerivativesWords, query) THEN DERIVATIVES
        ELSE IF AnyIn(SectorWords, query) THEN SECTOR_ANALYSIS
        ELSE IF AnyIn(FundBondWords, query) THEN FUND_BOND
        ELSE IF AnyIn(IndexWords, query) THEN INDEX_REALTIME
        ELSE INDEX_REALTIME
\* _classify_intent
ClassifyIntent(query) ==
    LET q == Lower(query)
    IN  IF AnyIn(LimitWords, query) THEN LIMIT_STATS
        ELSE IF AnyIn(IntradayWords, query) THEN INTRADAY_ANALYSIS
        ELSE IF AnyIn(KlineWords, query) \/ Contains(q, <<"k","l","i","n","e">>)
        THEN KLINE_ANALYSIS
        ELSE IF AnyIn(OverviewWords, query) THEN STOCK_OVERVIEW
        ELSE IF AnyIn(MoneyFlowWords, query) THEN MONEY_FLOW
        ELSE IF AnyIn(FundamentalWords, query) THEN FUNDAMENTAL
        ELSE IF AnyIn(MarginWords, query) THEN MARGIN_LHB
        ELSE IF AnyIn(HkUsWords, query) \/ AnyIn(HkUsLowerWords, q) THEN HK_US_MARKET
        ELSE IF AnyIn(DerivativesWords, query) THEN DERIVATIVES
        ELSE IF AnyIn(FundBondWords, query) THEN FUND_BOND
        ELSE IF AnyIn(SectorWords, query) THEN SECTOR_ANALYSIS
        ELSE IF AnyIn(IndexWords, query) THEN INDEX_REALTIME
        ELSE INDEX_REALTIME

\* the first position from n on that holds no blank (\s*)
RECURSIVE SkipBlanks(_, _)
SkipBlanks(s, n) == IF n <= Len(s) /\ s[n] = " " THEN SkipBlanks(s, n + 1) ELSE n

\* the end of the run of digits that starts at n (n - 1 when there is none)
RECURSIVE DigitsEnd(_, _)
DigitsEnd(s, n) == IF n <= Len(s) /\ IsDigit(s[n]) THEN DigitsEnd(s, n + 1) ELSE n - 1

\* the one-or-none separator [-/]? at n: the position after it
SkipSep(s, n) == IF n <= Len(s) /\ s[n] \in {"-", "/"} THEN n + 1 ELSE n

\* r"(\d{4})[-/]?(\d{2})[-/]?(\d{2})" matches at s[n]
DateMatchAt(s, n) ==
    LET m == SkipSep(s, n + 4)
        d == SkipSep(s, m + 2)
    IN  AllDigits(s, n, n + 3) /\ AllDigits(s, m, m + 1) /\ AllDigits(s, d, d + 1)

\* strftime("%Y-%m-%d")
YmdDashed(c) == Pad(c[1], 4) \o <<"-">> \o Pad(c[2], 2) \o <<"-">> \o Pad(c[3], 2)

StrftimeDashed(n) == YmdDashed(CivilFromOrdinal(n))

\* an _extract_date that knows no words for today
ExtractDateNoToday(query, today) ==
    LET at == {n \in 1..Len(query) : DateMatchAt(query, n)}
        n0 == CHOOSE x \in at : \A y \in at : x <= y
        m == SkipSep(query, n0 + 4)
        d == SkipSep(query, m + 2)
    IN  IF at # {}
        THEN SubSeq(query, n0, n0 + 3) \o <<"-">> \o SubSeq(query, m, m + 1)
                 \o <<"-">> \o SubSeq(query, d, d + 1)
        ELSE IF Contains(query, <<"zuo","tian">>) \/ Contains(query, <<"zuo","ri">>)
        THEN StrftimeDashed(today - 1)
        ELSE NoneT

\* _extract_date
ExtractDate(query, today) ==
    LET at == {n \in 1..Len(query) : DateMatchAt(query, n)}
        n0 == CHOOSE x \in at : \A y \in at : x <= y
        m == SkipSep(query, n0 + 4)
        d == SkipSep(query, m + 2)
    IN  IF at # {}
        THEN SubSeq(query, n0, n0 + 3) \o <<"-">> \o SubSeq(query, m, m + 1)
                 \o <<"-">> \o SubSeq(query, d, d + 1)
        ELSE IF Contains(query, <<"jin1","tian">>) \/ Contains(query, <<"jin1","ri">>)
        THEN StrftimeDashed(today)
        ELSE IF Contains(query, <<"zuo","tian">>) \/ Contains(query, <<"zuo","ri">>)
        THEN StrftimeDashed(today - 1)
        ELSE NoneT

\* _extract_period
ExtractPeriod(query) ==
    LET q == Lower(query)
    IN  IF Contains(q, <<"1","m">>) \/ Contains(query, <<"1","fen","zhong1">>) THEN <<"1">>
        ELSE IF Contains(q, <<"5","m">>) \/ Contains(query, <<"5","fen","zhong1">>) THEN <<"5">>
        ELSE IF Contains(q, <<"1","5","m">>) \/ Contains(query, <<"1","5","fen","zhong1">>)
        THEN <<"1","5">>
        ELSE IF Contains(q, <<"3","0","m">>) \/ Contains(query, <<"3","0","fen","zhong1">>)
        THEN <<"3","0">>
        ELSE IF Contains(q, <<"6","0","m">>) \/ Contains(query, <<"6","0","fen","zhong1">>)
        THEN <<"6","0">>
        ELSE IF Contains(query, <<"zhou2","xian">>) \/ Contains(q, <<"w","e","e","k">>)
        THEN <<"weekly">>
        ELSE IF Contains(query, <<"yue","xian">>) \/ Contains(q, <<"m","o","n","t","h">>)
        THEN <<"monthly">>
        ELSE IF \/ Contains(query, <<"ri","xian">>) \/ Contains(q, <<"d","a","y">>)
                \/ Contains(q, <<"d","a","i","l","y">>)
        THEN <<"daily">>
        ELSE NoneT

\* r"<word>\s*(\d+)" matches at s[n]: the digits of the group, or <<>>
CountAfter(s, n, word) ==
    LET from == SkipBlanks(s, n + Len(word))
        to == DigitsEnd(s, from)
    IN  IF n + Len(word) - 1 <= Len(s) /\ SubSeq(s, n, n + Len(word) - 1) = word /\ to >= from
        THEN SubSeq(s, from, to) ELSE <<>>

\* r"<word>\s*(\d+)\s*(ri|tian|zhou|yue)" matches at s[n]: the digits, or <<>>
UnitChars == {"ri", "tian", "zhou2", "yue"}
CountWithUnitAfter(s, n, word) ==
    LET ds == CountAfter(s, n, word)
        from == SkipBlanks(s, n + Len(word))
        unit == SkipBlanks(s, from + Len(ds))
    IN  IF ds # <<>> /\ unit <= Len(s) /\ s[unit] \in UnitChars THEN ds ELSE <<>>

\* _extract_top_n (None is -1)
NoInt == -1
\* an _extract_top_n without the "jin N ri" and "zuijin N tian" patterns
ExtractTopNNoRecent(query) ==
    LET q == Lower(query)
        Min(S) == CHOOSE x \in S : \A y \in S : x <= y
        top == {n \in 1..Len(q) : CountAfter(q, n, <<"t","o","p">>) # <<>>}
        qian == {n \in 1..Len(query) : CountAfter(query, n, <<"qian">>) # <<>>}
    IN  IF top # {} THEN ParseInt(CountAfter(q, Min(top), <<"t","o","p">>))
        ELSE IF qian # {} THEN ParseInt(CountAfter(query, Min(qian), <<"qian">>))
        ELSE NoInt
ExtractTopN(query) ==
    LET q == Lower(query)
        Min(S) == CHOOSE x \in S : \A y \in S : x <= y
        top == {n \in 1..Len(q) : CountAfter(q, n, <<"t","o","p">>) # <<>>}
        qian == {n \in 1..Len(query) : CountAfter(query, n, <<"qian">>) # <<>>}
        jin == {n \in 1..Len(query) : CountWithUnitAfter(query, n, <<"jin2">>) # <<>>}
        zuijin == {n \in 1..Len(query) : CountWithUnitAfter(query, n, <<"zui","jin2">>) # <<>>}
    IN  IF top # {} THEN ParseInt(CountAfter(q, Min(top), <<"t","o","p">>))
        ELSE IF qian # {} THEN ParseInt(CountAfter(query, Min(qian), <<"qian">>))
        ELSE IF jin # {} THEN ParseInt(CountWithUnitAfter(query, Min(jin), <<"jin2">>))
        ELSE IF zuijin # {}
        THEN ParseInt(CountWithUnitAfter(query, Min(zuijin), <<"zui","jin2">>))
        ELSE NoInt

\* parse_query
ParseQuery(query, today) ==
    LET text == Strip(query)
    IN  [intent |-> ClassifyIntent(text), query |-> text, symbol |-> ExtractSymbol(text),
         date |-> ExtractDate(text, today), period |-> ExtractPeriod(text),
         top_n |-> ExtractTopN(text)]

\* ---------------------------------------------------------- main.py

\* x or default, for an Optional[str] and an Optional[int]
OrText(v, default) == IF v = NoneT \/ v = <<>> THEN default ELSE v
OrInt(v, default) == IF v = NoInt \/ v = 0 THEN default ELSE v

DefaultSymbol == <<"0","0","0","0","0","1">>

\* the examples the missing-symbol messages end with
MissingExample(intent) ==
    IF intent = STOCK_OVERVIEW THEN <<"mao1","tai","zen","me","yang">>
    ELSE IF intent = MONEY_FLOW THEN <<"mao1","tai","zi","jin","liu","xiang">>
    ELSE IF intent = FUNDAMENTAL THEN <<"mao1","tai","cai","wu1","zhi1","biao">>
    ELSE <<"ning","de","shi2","dai","yan","bao">>
MissingPrompt == <<"qing shuru gupiao daima huo mingcheng">>

\* a dispatch that answers ok although the symbol is missing
MissingSymbolOk(intent) ==
    [kind |-> "result", ok |-> TRUE, error |-> MissingPrompt \o MissingExample(intent),
     intent |-> intent]
\* the result dispatch returns itself when the symbol is missing
MissingSymbol(intent) ==
    [kind |-> "result", ok |-> FALSE, error |-> MissingPrompt \o MissingExample(intent),
     intent |-> intent]

\* min(top_n, 10)
Min10(n) == IF n > 10 THEN 10 ELSE n

Return(res) == [kind |-> "return", res |-> res]
CallAdapter(request) == [kind |-> "call", request |-> request]

\* subprocess.run(["python3", script, *args], capture_output=True, text=True,
\* timeout=timeout), and the text a portfolio command answers with when the
\* script prints nothing
RunScript(script, args, timeout, default) ==
    [kind |-> "call",
     request |-> [op |-> "script", script |-> script, args |-> args, timeout |-> timeout,
                  default |-> default]]

\* re.search(r"\b(\d{6})\b", query): the group, or None
PortfolioCode(query) ==
    LET at == {n \in 1..Len(query) : /\ Boundary(query, n - 1)
                                     /\ AllDigits(query, n, n + 5)
                                     /\ Boundary(query, n + 5)}
        n0 == CHOOSE x \in at : \A y \in at : x <= y
    IN  IF at = {} THEN NoneT ELSE SubSeq(query, n0, n0 + 5)

\* r"(\d+\.?\d*)" at s[n]: the end of the match (n - 1 when there is none)
DecimalEnd(s, n) ==
    LET whole == DigitsEnd(s, n)
    IN  IF whole < n THEN n - 1
        ELSE IF whole + 1 <= Len(s) /\ s[whole + 1] = "."
        THEN IF DigitsEnd(s, whole + 2) >= whole + 2 THEN DigitsEnd(s, whole + 2)
             ELSE whole + 1
        ELSE whole

\* re.search(r"--?cost\s*(\d+\.?\d*)", query): the group, or None
PortfolioCost(query) ==
    LET word == <<"-","c","o","s","t">>
        at == {n \in 1..Len(query) : CountAfter(query, n, word) # <<>>}
        n0 == CHOOSE x \in at : \A y \in at : x <= y
        from == SkipBlanks(query, n0 + Len(word))
    IN  IF at = {} THEN NoneT ELSE SubSeq(query, from, DecimalEnd(query, from))

\* re.search(r"--?qty\s*(\d+)", query) or re.search(r"shuliang\s*(\d+)", query):
\* the group, or None
PortfolioQty(query) ==
    LET Min(S) == CHOOSE x \in S : \A y \in S : x <= y
        qty == {n \in 1..Len(query) : CountAfter(query, n, <<"-","q","t","y">>) # <<>>}
        shuliang == {n \in 1..Len(query) : CountAfter(query, n, <<"shu","liang4">>) # <<>>}
    IN  IF qty # {} THEN CountAfter(query, Min(qty), <<"-","q","t","y">>)
        ELSE IF shuliang # {} THEN CountAfter(query, Min(shuliang), <<"shu","liang4">>)
        ELSE NoneT

AddPrompt == <<"qing shuru: tianjia chicang daima --cost chengbenjia --qty shuliang">>
RemovePrompt == <<"qing shuru yao shanchu de gupiao daima">>
Added == <<"yi","tian1","jia","chi","cang">>
Removed == <<"yi","shan","chu2">>
NoHoldings == <<"zan","wu","chi","cang">>

\* dispatch of PORTFOLIO: the command of the portfolio script the query asks
\* for, or the result returned without running it
PortfolioCommand(query) ==
    IF Contains(query, <<"tian1","jia">>) \/ Contains(Lower(query), <<"a","d","d">>)
    THEN IF /\ PortfolioCode(query) # NoneT
            /\ PortfolioCost(query) # NoneT
            /\ PortfolioQty(query) # NoneT
         THEN RunScript("portfolio.py",
                        << <<"add">>, PortfolioCode(query), <<"--cost">>, PortfolioCost(query),
                           <<"--qty">>, PortfolioQty(query) >>, 10, Added)
         ELSE Return([kind |-> "result", ok |-> FALSE, error |-> AddPrompt])
    ELSE IF Contains(query, <<"fen","xi">>)
    THEN RunScript("portfolio.py", << <<"analyze">> >>, 60, NoHoldings)
    ELSE IF Contains(query, <<"shan","chu2">>) \/ Contains(query, <<"yi2","chu2">>)
    THEN IF PortfolioCode(query) # NoneT
         THEN RunScript("portfolio.py", << <<"remove">>, PortfolioCode(query) >>, 10, Removed)
         ELSE Return([kind |-> "result", ok |-> FALSE, error |-> RemovePrompt])
    ELSE RunScript("portfolio.py", << <<"show">> >>, 10, NoHoldings)

\* the ways a run of a script ends: it exits with a return code, having
\* written stdout and stderr, or the timeout expires first
Exited(returncode, stdout, stderr) ==
    [kind |-> "exit", returncode |-> returncode, stdout |-> stdout, stderr |-> stderr]
TimedOut == [kind |-> "timeout"]

\* dispatch of VOLUME_ANALYSIS from subprocess.run on: TimeoutExpired is
\* caught nowhere
VolumeResult(run) ==
    IF run.kind = "timeout" THEN Exception(<<"TimeoutExpired">>)
    ELSE IF run.returncode = 0
    THEN [kind |-> "result", ok |-> TRUE, text |-> run.stdout]
    ELSE [kind |-> "result", ok |-> FALSE, error |-> run.stderr]

\* dispatch of PORTFOLIO from subprocess.run on: the return code is not read
PortfolioResult(run, default) ==
    IF run.kind = "timeout" THEN Exception(<<"TimeoutExpired">>)
    ELSE [kind |-> "result", ok |-> TRUE, source |-> "portfolio",
          text |-> IF run.stdout # <<>> THEN run.stdout ELSE default]

\* the entry of the log for a run of a script
Ran(request, run) ==
    [fn |-> "subprocess.run", kw |-> << <<"script", <<request.script>> >> >>,
     kind |-> run.kind, run |-> run]

\* what dispatch yields once the script has run
ScriptDone(request, run) ==
    Returned(IF request.script = "analyze.py" THEN VolumeResult(run)
             ELSE PortfolioResult(run, request.default),
             <<Ran(request, run)>>)

MarketFlowWords ==
    {<<"bei","xiang">>, <<"nan","xiang">>, <<"dong","xiang">>, <<"shi2","chang","zi","jin">>,
     <<"da1","pan","zi","jin">>}
SectorFlowWords ==
    {<<"hang","ye","zi","jin">>, <<"ban","kuai","zi","jin">>, <<"hang","ye","liu","ru">>,
     <<"ban","kuai","liu","ru">>}
ConceptWords == {<<"gai","nian">>, <<"ti","cai1">>}
BondWords == {<<"ke1","zhuan","zhai">>, <<"zhuan","zhai">>, <<"zhai">>}
UsTokens ==
    {<<"mei","gu">>, <<"n","a","s","d","a","q">>, <<"d","o","w">>, <<"dao","qiong","si">>,
     <<"biao","pu">>, <<"s","p","5","0","0">>, <<"s","&","p">>, <<"na","zhi1">>, <<"u","s">>}
OptionWords ==
    {<<"qi","quan1">>, <<"o","p","t","i","o","n">>, <<"O","p","t","i","o","n">>,
     <<"O","P","T","I","O","N","S">>}

\* dispatch: the adapter call (or the immediate result) an intent object
\* leads to
Route(io) ==
    IF io.intent = INDEX_REALTIME THEN CallAdapter([op |-> "index_spot", top_n |-> 300])
    ELSE IF io.intent = KLINE_ANALYSIS
    THEN CallAdapter([op |-> "stock_kline", symbol |-> OrText(io.symbol, DefaultSymbol),
                      period |-> OrText(io.period, <<"daily">>), top_n |-> OrInt(io.top_n, 10)])
    ELSE IF io.intent = INTRADAY_ANALYSIS
    THEN CallAdapter([op |-> "stock_intraday", symbol |-> OrText(io.symbol, DefaultSymbol),
                      period |-> IF io.period \in MinutePeriods THEN io.period ELSE <<"1">>,
                      top_n |-> OrInt(io.top_n, 30)])
    ELSE IF io.intent = VOLUME_ANALYSIS
    THEN RunScript("analyze.py", <<OrText(io.symbol, DefaultSymbol), <<"--minute">> >>, 30,
                   <<>>)
    ELSE IF io.intent = LIMIT_STATS
    THEN CallAdapter([op |-> "limit_pool", date |-> io.date, top_n |-> OrInt(io.top_n, 20)])
    ELSE IF io.intent = STOCK_OVERVIEW
    THEN IF io.symbol = NoneT \/ io.symbol = <<>>
         THEN Return(MissingSymbol(STOCK_OVERVIEW))
         ELSE CallAdapter([op |-> "stock_overview", symbol |-> io.symbol])
    ELSE IF io.intent = MONEY_FLOW
    THEN IF AnyIn(MarketFlowWords, io.query)
         THEN CallAdapter([op |-> "market_money_flow", top_n |-> OrInt(io.top_n, 10),
                           date |-> io.date])
         ELSE IF AnyIn(SectorFlowWords, io.query)
         THEN CallAdapter([op |-> "sector_money_flow", top_n |-> OrInt(io.top_n, 10)])
         ELSE IF io.symbol = NoneT \/ io.symbol = <<>>
         THEN Return(MissingSymbol(MONEY_FLOW))
         ELSE CallAdapter([op |-> "money_flow", symbol |-> io.symbol,
                           top_n |-> OrInt(io.top_n, 10)])
    ELSE IF io.intent = FUNDAMENTAL
    THEN IF io.symbol = NoneT \/ io.symbol = <<>>
         THEN Return(MissingSymbol(FUNDAMENTAL))
         ELSE CallAdapter([op |-> "fundamental", symbol |-> io.symbol,
                           top_n |-> OrInt(io.top_n, 20)])
    ELSE IF io.intent = MARGIN_LHB
    THEN CallAdapter([op |-> "margin_lhb", symbol |-> io.symbol, date |-> io.date,
                      top_n |-> OrInt(io.top_n, 10)])
    ELSE IF io.intent = RESEARCH_REPORT
    THEN IF io.symbol = NoneT \/ io.symbol = <<>>
         THEN Return(MissingSymbol(RESEARCH_REPORT))
         ELSE CallAdapter([op |-> "research_report", symbol |-> io.symbol,
                           top_n |-> Min10(OrInt(io.top_n, 10))])
    ELSE IF io.intent = SECTOR_ANALYSIS
    THEN CallAdapter([op |-> "sector_analysis",
                      sector_type |-> IF AnyIn(ConceptWords, io.query) THEN <<"concept">>
                                      ELSE <<"industry">>,
                      top_n |-> OrInt(io.top_n, 10)])
    ELSE IF io.intent = FUND_BOND
    THEN CallAdapter([op |-> "fund_bond",
                      scope |-> IF AnyIn(BondWords, Lower(io.query)) THEN <<"bond">>
                                ELSE <<"fund">>,
                      symbol |-> io.symbol, top_n |-> OrInt(io.top_n, 10)])
    ELSE IF io.intent = HK_US_MARKET
    THEN CallAdapter([op |-> "hk_us_market",
                      market |-> IF AnyIn(UsTokens, Lower(io.query)) THEN <<"u","s">>
                                 ELSE <<"h","k">>,
                      top_n |-> OrInt(io.top_n, 10), symbol |-> io.symbol])
    ELSE IF io.intent = DERIVATIVES
    THEN CallAdapter([op |-> "derivatives",
                      scope |-> IF AnyIn(OptionWords, io.query) THEN <<"options">>
                                ELSE <<"futures">>,
                      symbol |-> io.symbol, top_n |-> OrInt(io.top_n, 10)])
    ELSE IF io.intent = PORTFOLIO THEN PortfolioCommand(OrText(io.query, <<>>))
    ELSE Return([kind |-> "result", ok |-> TRUE, source |-> "framework",
                 message |-> <<"placeholder">>, intent |-> io.intent,
                 parsed |-> [symbol |-> io.symbol, date |-> io.date, period |-> io.period,
                             top_n |-> io.top_n]])

\* ------------------------------------------------------------ inputs

StartClock == 739923

Code600519 == <<"6","0","0","5","1","9">>
RowTarget == [daima |-> Code600519, mingcheng |-> <<"gui","zhou1","mao1","tai">>]
RowOther == [daima |-> <<"0","0","0","0","0","1">>, mingcheng |-> <<"ping","an">>]
RowPrefixed == [gupiaodaima |-> <<"S","H">> \o Code600519]
TableNone == Table(<<>>)
TableOne == Table(<<RowTarget>>)
TableTwo == Table(<<RowOther, RowPrefixed>>)
Boom == Raise(<<"boom">>)

\* the behaviour of the upstream functions during one step of an operation
Behaviour(out, byfn) == [out |-> out, byfn |-> byfn]
During(cap, b) == [cap EXCEPT !.out = b.out, !.byfn = b.byfn]
ByFn(fns, outcomes) == {Behaviour(<<>>, f) : f \in [fns -> outcomes]}

AllApis ==
    {"stock_zh_index_spot_sina", "stock_zh_index_spot_em", "stock_zh_a_hist",
     "stock_zh_a_minute", "stock_intraday_em", "stock_zt_pool_em",
     "stock_zt_pool_dtgc_em", "stock_dt_pool_em", "stock_news_em",
     "stock_research_report_em", "stock_individual_fund_flow",
     "stock_financial_abstract_ths", "stock_financial_analysis_indicator",
     "stock_market_fund_flow", "stock_hsgt_fund_flow_summary_em",
     "stock_hsgt_north_net_flow_in_em", "stock_hsgt_hist_em",
     "stock_sector_fund_flow_rank", "stock_fund_flow_industry",
     "stock_sector_fund_flow_summary", "stock_board_industry_cons_em",
     "stock_hot_rank_em", "stock_margin_detail", "stock_margin_detail_em",
     "stock_margin_underlying_info_szse", "stock_margin_underlying_info_sse",
     "stock_lhb_detail_em", "stock_lhb_ggtj_sina", "stock_sector_name_code",
     "stock_sector_spot", "fund_etf_hist_em", "fund_etf_spot_em",
     "fund_open_fund_daily_em", "bond_zh_hs_cov_spot", "bond_zh_hs_cov_daily",
     "stock_hk_spot_em", "stock_us_spot_em", "futures_display_main_sina",
     "match_main_contract", "futures_main_sina", "option_current_em",
     "option_cffex_hs300_spot_sina", "option_finance_board"}

\* the capabilities: the import failed; every function exists; the first
\* choice of each operation is missing
Capabilities ==
    {[ready |-> FALSE, has |-> {}, out |-> <<>>, byfn |-> <<>>],
     [ready |-> TRUE, has |-> AllApis, out |-> <<>>, byfn |-> <<>>],
     [ready |-> TRUE,
      has |-> AllApis \ {"stock_zh_index_spot_sina", "stock_zh_a_minute",
                         "stock_zt_pool_dtgc_em", "stock_financial_abstract_ths",
                         "stock_market_fund_flow", "stock_sector_fund_flow_rank",
                         "stock_margin_detail", "stock_lhb_detail_em",
                         "stock_sector_name_code", "fund_etf_hist_em",
                         "bond_zh_hs_cov_spot", "stock_hk_spot_em",
                         "futures_display_main_sina", "option_current_em",
                         "stock_board_industry_cons_em"},
      out |-> <<>>, byfn |-> <<>>]}

RealtimeBehaviours ==
    ByFn({"stock_zh_a_minute", "stock_intraday_em"}, {Boom, Ok(TableOne)})
MoneyFlowBehaviours == ByFn({"stock_individual_fund_flow"}, {Boom, Ok(TableTwo)})
ReportBehaviours == ByFn({"stock_research_report_em"}, {Boom, Ok(TableOne)})

\* fundamentals: every call raises; every call returns; the first operation
\* raises for every argument set and the second returns; the first call
\* returns None; only the third argument set of the first operation returns
FundamentalBehaviours(clean_symbol) ==
    {Behaviour(<<>>, [f \in {"stock_financial_abstract_ths",
                             "stock_financial_analysis_indicator"} |-> Boom]),
     Behaviour(<<>>, [f \in {"stock_financial_abstract_ths",
                             "stock_financial_analysis_indicator"} |-> Ok(TableTwo)]),
     Behaviour(<<>>, "stock_financial_abstract_ths" :> Boom
                     @@ "stock_financial_analysis_indicator" :> Ok(TableOne)),
     Behaviour(<<>>, [f \in {"stock_financial_abstract_ths",
                             "stock_financial_analysis_indicator"} |-> Ok(NoPayload)]),
     Behaviour(<<"stock_financial_abstract_ths", << <<"symbol", clean_symbol>> >> >>
                   :> Ok(TableOne),
               [f \in {"stock_financial_abstract_ths",
                       "stock_financial_analysis_indicator"} |-> Boom])}

\* one day of the limit pools: the limit-up call raises; the target is in
\* the limit-up pool and no limit-down call succeeds; the target is in the
\* limit-down pool
PoolDayFails == Behaviour(<<>>, [f \in {"stock_zt_pool_em"} |-> Boom])
PoolDayUp ==
    Behaviour(<<>>, "stock_zt_pool_em" :> Ok(TableOne) @@ "stock_zt_pool_dtgc_em" :> Boom
                     @@ "stock_dt_pool_em" :> Boom)
PoolDayDown ==
    Behaviour(<<>>, "stock_zt_pool_em" :> Ok(TableNone) @@ "stock_zt_pool_dtgc_em" :> Boom
                     @@ "stock_dt_pool_em" :> Ok(TableTwo))

BadTable == [type |-> "badtable", rows |-> <<RowOther>>]
Outcomes == {Boom, Ok(TableTwo), Ok(NoPayload), Ok(BadTable)}

IndexBehaviours == ByFn({"stock_zh_index_spot_sina", "stock_zh_index_spot_em"}, Outcomes)
KlineBehaviours == ByFn({"stock_zh_a_hist"}, Outcomes)
IntradayBehaviours == ByFn({"stock_zh_a_minute", "stock_intraday_em"}, Outcomes)
PoolBehaviours ==
    ByFn({"stock_zt_pool_em", "stock_zt_pool_dtgc_em", "stock_dt_pool_em"},
         {Boom, Ok(TableOne)})
NewsBehaviours == ByFn({"stock_news_em"}, Outcomes)
FlowBehaviours == ByFn({"stock_individual_fund_flow"}, Outcomes)
ResearchBehaviours == ByFn({"stock_research_report_em"}, Outcomes)

\* rows of a ranking: the change in percent as a float, as a text, as a
\* zero, and missing
RowUp == [daima |-> Code600519, mingcheng |-> <<"mao1","tai">>, zhangdiefu |-> FloatCell(2),
          riqi |-> <<"2","0","2","6","-","1","1","-","0","2">>]
RowDown == [gupiaodaima |-> <<"s","z","0","0","0","0","0","1">>, zhangdiefu |-> <<"-","1","%">>,
            riqi |-> <<"2","0","2","6","-","1","1","-","0","3">>]
RowFlat == [daima |-> <<"3","0","0","7","5","0">>, zhangdiefu |-> FloatCell(0),
            riqi |-> <<"2","0","2","6","-","1","1","-","0","1">>]
RowBuy == [gupiaodaima |-> Code600519, dongcaipingji |-> Buy,
           baogaomingcheng |-> <<"r","e","p","o","r","t">>]
TableRank == Table(<<RowFlat, RowDown, RowUp, RowOther, RowBuy>>)
RankOutcomes == {Boom, Ok(TableRank), Ok(NoPayload)}
FewOutcomes == {Boom, Ok(TableTwo)}

MarketFlowBehaviours ==
    ByFn({"stock_market_fund_flow", "stock_hsgt_fund_flow_summary_em",
          "stock_hsgt_north_net_flow_in_em", "stock_hsgt_hist_em"}, FewOutcomes)
SectorFlowBehaviours ==
    ByFn({"stock_sector_fund_flow_rank", "stock_fund_flow_industry",
          "stock_sector_fund_flow_summary"}, RankOutcomes)
MarginBehaviours ==
    ByFn({"stock_margin_detail", "stock_margin_detail_em",
          "stock_margin_underlying_info_szse", "stock_margin_underlying_info_sse",
          "stock_lhb_detail_em", "stock_lhb_ggtj_sina"}, FewOutcomes)
SectorBehaviours == ByFn({"stock_sector_name_code", "stock_sector_spot"}, RankOutcomes)
FundBondBehaviours ==
    ByFn({"fund_etf_hist_em", "fund_etf_spot_em", "fund_open_fund_daily_em",
          "bond_zh_hs_cov_spot", "bond_zh_hs_cov_daily"}, {Boom, Ok(TableRank)})
HkUsBehaviours == ByFn({"stock_hk_spot_em", "stock_us_spot_em"}, Outcomes)
DerivativesBehaviours ==
    ByFn({"futures_display_main_sina", "match_main_contract", "futures_main_sina",
          "option_current_em", "option_cffex_hs300_spot_sina", "option_finance_board"},
         FewOutcomes)
PickBehaviours ==
    {Behaviour(<<>>, f @@ [g \in {"stock_sector_fund_flow_rank", "stock_fund_flow_industry",
                                  "stock_sector_fund_flow_summary"} |-> Boom]) :
        f \in [{"stock_board_industry_cons_em", "stock_hot_rank_em",
                "stock_research_report_em"} -> {Boom, Ok(TableRank), Ok(BadTable)}]}

\* the behaviours of the limit pools on one day of the scan, by kind
PoolDay == [fails |-> PoolDayFails, up |-> PoolDayUp, down |-> PoolDayDown]
PoolKinds == DOMAIN PoolDay

\* the queries:
\* "guizhou maotai zenmeyang", "zenmeyang", "maotai K xian qian 800000 tiao",
\* "maotai jin 30 ri K xian", "dapan", "jinri zhangting", "600519 fenshi",
\* "maotai caiwu zhibiao", "beixiang zijin", "hangye zijinliu",
\* "maotai zijin liuxiang", "zijin liuxiang", "longhubang", "gainian bankuai",
\* "hangye bankuai", "kezhuanzhai", "jijin jingzhi", "meigu", "ganggu",
\* "qiquan", "qihuo"
QueryOverview == <<"gui","zhou1","mao1","tai","zen","me","yang">>
QueryKlineHuge == <<"mao1","tai","K","xian"," ","qian","8","0","0","0","0","0","tiao">>
Queries ==
    {QueryOverview,
     <<"zen","me","yang">>,
     QueryKlineHuge,
     <<"mao1","tai","jin2","3","0","ri","K","xian">>,
     <<"da1","pan">>,
     <<"jin1","ri","zhang","ting">>,
     <<"6","0","0","5","1","9"," ","fen","shi1">>,
     <<"mao1","tai","cai","wu1","zhi1","biao">>,
     <<"cai","wu1","zhi1","biao">>,
     <<"bei","xiang","zi","jin">>,
     <<"hang","ye","zi","jin","liu">>,
     <<"mao1","tai","zi","jin","liu","xiang">>,
     <<"zi","jin","liu","xiang">>,
     <<"long","hu","bang">>,
     <<"gai","nian","ban","kuai">>,
     <<"hang","ye","ban","kuai">>,
     <<"ke1","zhuan","zhai">>,
     <<"ji","jin","jing","zhi">>,
     <<"mei","gu">>,
     <<"gang","gu">>,
     <<"qi","quan1">>,
     <<"qi","huo">>}

NoSections == <<>>
NoScan == <<>>
NoPool == [kind |-> "none", flips |-> 0]
NoResult == [kind |-> "none"]

\* the direct uses of the adapter
Symbols == {Code600519, <<"S","H">> \o Code600519, <<"s","h">>}
DirectRequests ==
    {[op |-> "index_spot", top_n |-> 300]}
    \cup [op : {"stock_kline"}, symbol : {Code600519},
          period : {<<"daily">>, <<"weekly">>, <<"monthly">>}, top_n : {1, 10}]
    \cup [op : {"stock_intraday"}, symbol : {Code600519}, period : {<<"5">>, <<"2">>},
          top_n : {1}]
    \cup [op : {"limit_pool"}, date : {NoneT, <<"2","0","2","6","-","1","1","-","0","2">>},
          top_n : {1, 20}]
    \cup [op : {"news"}, top_n : {0, 20}]
    \cup [op : {"research_report"}, symbol : Symbols, top_n : {3}]
    \cup [op : {"money_flow"}, symbol : {Code600519, <<"0","0","0","0","0","1">>}, top_n : {10}]
    \cup [op : {"fundamental"}, symbol : {Code600519}, top_n : {1}]
    \cup [op : {"stock_overview"}, symbol : Symbols]
    \cup [op : {"market_money_flow"}, top_n : {2}, date : {<<"zuo","tian">>}]
    \cup [op : {"sector_money_flow"}, top_n : {0, 2}]
    \cup [op : {"stock_pick"}, top_n : {1, 5},
          sector : {NoneT, <<"bai","jiu">>, <<"ruan","jian1","gu">>, <<"x">>}]
    \cup [op : {"margin_lhb"}, symbol : {NoneT, Code600519}, date : {NoneT}, top_n : {1}]
    \cup [op : {"sector_analysis"}, sector_type : {Concept, <<"industry">>}, top_n : {2, 10}]
    \cup [op : {"fund_bond"}, scope : {<<"fund">>, <<"cb">>},
          symbol : {NoneT, Code600519, <<"x">>}, top_n : {3}]
    \cup [op : {"hk_us_market"}, market : {<<"mei","gu">>, <<"h","k">>}, top_n : {1},
          symbol : {NoneT, <<"6","0","0">>}]
    \cup [op : {"derivatives"}, scope : {<<"option">>, <<"futures">>},
          symbol : {NoneT, <<"6","0","0">>}, top_n : {1}]

\* "wo de chicang", "tianjia chicang 600519 --cost 10.5 --qty 1000",
\* "tianjia chicang 600519", "add 600519 -cost 10 shuliang 5", "chicang fenxi",
\* "shanchu 600519", "yichu chicang"
PortfolioQueries ==
    {<<"wo","de","chi","cang">>,
     <<"tian1","jia","chi","cang"," ">> \o Code600519
         \o <<" ","-","-","c","o","s","t"," ","1","0",".","5"," ","-","-","q","t","y"," ",
              "1","0","0","0">>,
     <<"tian1","jia","chi","cang"," ">> \o Code600519,
     <<"a","d","d"," ">> \o Code600519
         \o <<" ","-","c","o","s","t"," ","1","0"," ","shu","liang4"," ","5">>,
     <<"chi","cang","fen","xi">>,
     <<"shan","chu2"," ">> \o Code600519,
     <<"yi2","chu2","chi","cang">>}

\* the ways the scripts end
ScriptRuns ==
    {TimedOut,
     Exited(0, <<"o","u","t">>, <<>>),
     Exited(0, <<>>, <<>>),
     Exited(1, <<>>, <<"e","r","r">>),
     Exited(2, <<"o","u","t">>, <<"e","r","r">>)}

\* intent objects handed to dispatch as they are
DirectIntents ==
    [intent : {RESEARCH_REPORT}, query : {<<"yan","bao">>}, symbol : {NoneT, Code600519},
     date : {NoneT}, period : {NoneT}, top_n : {NoInt, 20}]
    \cup [intent : {STOCK_OVERVIEW, FUNDAMENTAL, MONEY_FLOW},
          query : {<<"x">>, <<"bei","xiang">>}, symbol : {NoneT}, date : {NoneT},
          period : {NoneT}, top_n : {NoInt}]
    \cup [intent : {KLINE_ANALYSIS}, query : {<<"K","xian">>}, symbol : {NoneT, Code600519},
          date : {NoneT}, period : {NoneT, <<"weekly">>}, top_n : {NoInt, 30}]
    \cup [intent : {VOLUME_ANALYSIS}, query : {<<"liang4","neng">>},
          symbol : {NoneT, Code600519}, date : {NoneT}, period : {NoneT}, top_n : {NoInt}]
    \cup [intent : {PORTFOLIO}, query : PortfolioQueries, symbol : {NoneT}, date : {NoneT},
          period : {NoneT}, top_n : {NoInt}]

Init ==
    /\ req \in [op : {"query"}, query : Queries] \cup [op : {"dispatch"}, io : DirectIntents]
                \cup DirectRequests
    /\ pc = IF req.op \in {"query", "dispatch"} THEN "start" ELSE "call"
    /\ ak \in Capabilities
    /\ now = StartClock
    /\ calls = <<>>
    /\ sections = NoSections
    /\ scan = NoScan
    /\ poolenv = NoPool
    /\ result = NoResult

\* datetime.now() moves on to the next day
Tick ==
    /\ pc # "done"
    /\ now < StartClock + MaxTicks
    /\ now' = now + 1
    /\ UNCHANGED <<pc, req, ak, calls, sections, scan, poolenv, result>>

\* main: parse_query, then dispatch up to the adapter call (the request
\* keeps the query it came from)
Dispatch ==
    /\ pc = "start"
    /\ req.op = "query"
    /\ \E r \in {Route(ParseQuery(req.query, now))} :
           IF r.kind = "return"
           THEN /\ result' = r.res
                /\ pc' = "done"
                /\ req' = req
           ELSE /\ req' = r.request @@ [query |-> req.query]
                /\ pc' = "call"
                /\ result' = result
    /\ UNCHANGED <<ak, now, calls, sections, scan, poolenv>>

\* dispatch of an intent object up to the adapter call (the request keeps
\* the intent object it came from)
DispatchIntent ==
    /\ pc = "start"
    /\ req.op = "dispatch"
    /\ \E r \in {Route(req.io)} :
           IF r.kind = "return"
           THEN /\ result' = r.res
                /\ pc' = "done"
                /\ req' = req
           ELSE /\ req' = r.request @@ [io |-> req.io]
                /\ pc' = "call"
                /\ result' = result
    /\ UNCHANGED <<ak, now, calls, sections, scan, poolenv>>

\* an adapter operation that runs in one step and yields r
Finish(r) ==
    /\ result' = r.res
    /\ calls' = calls \o r.calls
    /\ pc' = "done"
    /\ UNCHANGED <<req, ak, now, sections, scan, poolenv>>

CallIndexSpot ==
    /\ pc = "call" /\ req.op = "index_spot"
    /\ \E b \in IndexBehaviours : \E r \in {IndexSpot(During(ak, b), req.top_n)} : Finish(r)

CallStockKline ==
    /\ pc = "call" /\ req.op = "stock_kline"
    /\ \E b \in KlineBehaviours :
          \E r \in {StockKline(During(ak, b), now, req.symbol, req.period, req.top_n)} : Finish(r)

CallStockIntraday ==
    /\ pc = "call" /\ req.op = "stock_intraday"
    /\ \E b \in IntradayBehaviours :
          \E r \in {StockIntraday(During(ak, b), req.symbol, req.period, req.top_n)} : Finish(r)

CallLimitPool ==
    /\ pc = "call" /\ req.op = "limit_pool"
    /\ \E b \in PoolBehaviours : \E r \in {LimitPool(During(ak, b), now, req.date, req.top_n)} : Finish(r)

CallNews ==
    /\ pc = "call" /\ req.op = "news"
    /\ \E b \in NewsBehaviours : \E r \in {News(During(ak, b), req.top_n)} : Finish(r)

CallResearchReport ==
    /\ pc = "call" /\ req.op = "research_report"
    /\ \E b \in ResearchBehaviours :
          \E r \in {ResearchReport(During(ak, b), req.symbol, req.top_n)} : Finish(r)

CallMoneyFlow ==
    /\ pc = "call" /\ req.op = "money_flow"
    /\ \E b \in FlowBehaviours : \E r \in {MoneyFlow(During(ak, b), req.symbol, req.top_n)} : Finish(r)

CallFundamental ==
    /\ pc = "call" /\ req.op = "fundamental"
    /\ \E b \in FundamentalBehaviours(CleanSymbol(req.symbol)) :
          \E r \in {Fundamental(During(ak, b), req.symbol, req.top_n)} : Finish(r)

CallMarketMoneyFlow ==
    /\ pc = "call" /\ req.op = "market_money_flow"
    /\ \E b \in MarketFlowBehaviours :
          \E r \in {MarketMoneyFlow(During(ak, b), now, req.top_n, req.date)} : Finish(r)

CallSectorMoneyFlow ==
    /\ pc = "call" /\ req.op = "sector_money_flow"
    /\ \E b \in SectorFlowBehaviours : \E r \in {SectorMoneyFlow(During(ak, b), req.top_n)} : Finish(r)

CallStockPick ==
    /\ pc = "call" /\ req.op = "stock_pick"
    /\ \E b \in PickBehaviours : \E r \in {StockPick(During(ak, b), req.top_n, req.sector)} : Finish(r)

CallMarginLhb ==
    /\ pc = "call" /\ req.op = "margin_lhb"
    /\ \E b \in MarginBehaviours :
          \E r \in {MarginLhb(During(ak, b), now, req.symbol, req.date, req.top_n)} : Finish(r)

CallSectorAnalysis ==
    /\ pc = "call" /\ req.op = "sector_analysis"
    /\ \E b \in SectorBehaviours :
          \E r \in {SectorAnalysis(During(ak, b), req.sector_type, req.top_n)} : Finish(r)

CallFundBond ==
    /\ pc = "call" /\ req.op = "fund_bond"
    /\ \E b \in FundBondBehaviours :
          \E r \in {FundBond(During(ak, b), now, req.scope, req.symbol, req.top_n)} : Finish(r)

CallHkUsMarket ==
    /\ pc = "call" /\ req.op = "hk_us_market"
    /\ \E b \in HkUsBehaviours :
          \E r \in {HkUsMarket(During(ak, b), req.market, req.top_n, req.symbol)} : Finish(r)

CallDerivatives ==
    /\ pc = "call" /\ req.op = "derivatives"
    /\ \E b \in DerivativesBehaviours :
          \E r \in {Derivatives(During(ak, b), req.scope, req.symbol, req.top_n)} : Finish(r)

\* dispatch of VOLUME_ANALYSIS and PORTFOLIO from the run of the script on
CallScript ==
    /\ pc = "call" /\ req.op = "script"
    /\ \E run \in ScriptRuns : \E r \in {ScriptDone(req, run)} : Finish(r)

\* the behaviours of the fundamentals functions met by stock_overview:
\* every call raises; every call returns; only the third argument set of
\* the first operation returns
OverviewFundamentalBehaviours(clean_symbol) ==
    {b \in FundamentalBehaviours(clean_symbol) :
        \/ b.out # <<>>
        \/ \A f \in DOMAIN b.byfn : b.byfn[f] \in {Boom, Ok(TableTwo)}}

\* stock_overview, up to the sections dict
OverviewBegin ==
    /\ pc = "call" /\ req.op = "stock_overview"
    /\ IF CleanSymbol(req.symbol) = <<>>
       THEN /\ result' = Error("stock_overview", <<"symbol is required">>)
            /\ pc' = "done"
            /\ sections' = sections
       ELSE /\ sections' = InitialSections
            /\ pc' = "realtime"
            /\ result' = result
    /\ UNCHANGED <<req, ak, now, calls, scan, poolenv>>

\* stock_overview, section 1
OverviewRealtime ==
    /\ pc = "realtime"
    /\ \E b \in RealtimeBehaviours :
          \E r \in {StockIntraday(During(ak, b), CleanSymbol(req.symbol), <<"1">>, 1)} :
              /\ sections' = [sections EXCEPT !.realtime = RealtimeSection(r.res)]
              /\ calls' = calls \o r.calls
    /\ pc' = "money_flow"
    /\ UNCHANGED <<req, ak, now, scan, poolenv, result>>

\* stock_overview, section 2
OverviewMoneyFlow ==
    /\ pc = "money_flow"
    /\ \E b \in MoneyFlowBehaviours :
          \E r \in {MoneyFlow(During(ak, b), CleanSymbol(req.symbol), 10)} :
              /\ sections' = [sections EXCEPT !.money_flow = MoneyFlowSection(r.res)]
              /\ calls' = calls \o r.calls
    /\ pc' = "fundamental"
    /\ UNCHANGED <<req, ak, now, scan, poolenv, result>>

\* stock_overview, section 3 and the locals of the scan
OverviewFundamental ==
    /\ pc = "fundamental"
    /\ \E b \in OverviewFundamentalBehaviours(CleanSymbol(req.symbol)) :
          \E r \in {Fundamental(During(ak, b), CleanSymbol(req.symbol), 10)} :
              /\ sections' = [sections EXCEPT !.fundamental = FundamentalSection(r.res)]
              /\ calls' = calls \o r.calls
    /\ scan' = InitialScan
    /\ pc' = "limit_stats"
    /\ UNCHANGED <<req, ak, now, poolenv, result>>

\* stock_overview, one iteration of the scan; the last one records section 4
OverviewLimitDay ==
    /\ pc = "limit_stats"
    /\ \E k \in PoolKinds :
       \E flips \in {poolenv.flips + (IF poolenv.kind \in {"none", k} THEN 0 ELSE 1)} :
       \E trade_date \in {Strftime(now - scan.offset)} :
       \E r \in {LimitPool(During(ak, PoolDay[k]), now, trade_date, ScanTopN)} :
       \E sc \in {ScanDay(scan, trade_date, r.res, req.symbol, CleanSymbol(req.symbol))} :
          /\ flips <= MaxFlips
          /\ poolenv' = [kind |-> k, flips |-> flips]
          /\ scan' = sc
          /\ calls' = calls \o r.calls
          /\ IF sc.offset = ScanDays
             THEN /\ sections' = [sections EXCEPT !.limit_stats = LimitStatsSection(sc)]
                  /\ pc' = "research_report"
             ELSE UNCHANGED <<sections, pc>>
    /\ UNCHANGED <<req, ak, now, result>>

\* stock_overview, section 5 and the result
OverviewReport ==
    /\ pc = "research_report"
    /\ \E b \in ReportBehaviours :
          \E r \in {ResearchReport(During(ak, b), CleanSymbol(req.symbol), 3)} :
          \E secs \in {[sections EXCEPT !.research_report = ReportSection(r.res)]} :
              /\ sections' = secs
              /\ calls' = calls \o r.calls
              /\ result' = OverviewResult(secs, CleanSymbol(req.symbol))
    /\ pc' = "done"
    /\ UNCHANGED <<req, ak, now, scan, poolenv>>

Next ==
    \/ Dispatch
    \/ DispatchIntent
    \/ CallIndexSpot
    \/ CallStockKline
    \/ CallStockIntraday
    \/ CallLimitPool
    \/ CallNews
    \/ CallResearchReport
    \/ CallMoneyFlow
    \/ CallFundamental
    \/ CallMarketMoneyFlow
    \/ CallSectorMoneyFlow
    \/ CallStockPick
    \/ CallMarginLhb
    \/ CallSectorAnalysis
    \/ CallFundBond
    \/ CallHkUsMarket
    \/ CallDerivatives
    \/ CallScript
    \/ OverviewBegin
    \/ OverviewRealtime
    \/ OverviewMoneyFlow
    \/ OverviewFundamental
    \/ OverviewLimitDay
    \/ OverviewReport

Spec == Init /\ [][Next]_vars

\* stock_overview while the clock runs
InitClock ==
    /\ Init
    /\ req.op = "stock_overview"

NextClock ==
    \/ Tick
    \/ OverviewBegin
    \/ OverviewRealtime
    \/ OverviewMoneyFlow
    \/ OverviewFundamental
    \/ OverviewLimitDay
    \/ OverviewReport

SpecClock == InitClock /\ [][NextClock]_vars

\* ------------------------------------------- the adapter operations

\* the request reached an adapter operation, which has returned or raised
AdapterDone == pc = "done" /\ req.op # "query"

\* stock_overview has run to its end on a symbol that is not empty
OverviewDone ==
    pc = "done" /\ req.op = "stock_overview" /\ CleanSymbol(req.symbol) # <<>>

\* the upstream functions behind each section of stock_overview
SectionApis ==
    [realtime |-> {"stock_zh_a_minute", "stock_intraday_em"},
     money_flow |-> {"stock_individual_fund_flow"},
     fundamental |-> {"stock_financial_abstract_ths", "stock_financial_analysis_indicator"},
     limit_stats |-> {"stock_zt_pool_em"},
     research_report |-> {"stock_research_report_em"}]
SectionNames == DOMAIN SectionApis

\* some invocation of one of the functions returned
UpstreamOk(fns) == \E n \in 1..Len(calls) : calls[n].fn \in fns /\ calls[n].kind = "ok"

\* the sections whose upstream gave nothing: no invocation made for the
\* section returned
FailedUpstream == {name \in SectionNames : ~UpstreamOk(SectionApis[name])}

NotReadyCause == <<"akshare import failed: ">> \o ImportError

\* C4: when the capability is not ready, every adapter operation returns an
\* ok:false result that carries the not-ready cause, and no upstream function
\* has been invoked.
C4_NotReadyFailsFast ==
    (AdapterDone /\ ~ak.ready) =>
        /\ result.kind = "result"
        /\ ~result.ok
        /\ result.error = NotReadyCause
        /\ calls = <<>>

\* C5: stock_overview returns ok:true exactly when one of its five sections
\* succeeded; when all five failed it returns one ok:false result whose error
\* is the errors of the sections joined.
C5_OverviewOkIffSomeSection ==
    OverviewDone =>
        /\ result.kind = "result"
        /\ result.ok <=> FailedUpstream # SectionNames
        /\ FailedUpstream = SectionNames =>
               result.error = Join(SectionErrors(sections, 1), "; ")

\* C6: the sections stock_overview marks ok:false are as many as the sections
\* whose upstream failed; with three failing and two succeeding the result is
\* ok:true with three sections ok:false and two ok:true.
C6_FailedSectionsCounted ==
    (OverviewDone /\ Cardinality(FailedUpstream) = 3) =>
        /\ result.kind = "result" /\ result.ok
        /\ Cardinality({name \in SectionNames : ~result.data[name].ok}) = 3
        /\ Cardinality({name \in SectionNames : result.data[name].ok}) = 2

\* the position of the section an upstream function belongs to
SectionOf(fn) ==
    CHOOSE n \in 1..Len(SectionOrder) :
        \/ fn \in SectionApis[SectionOrder[n]]
        \/ SectionOrder[n] = "limit_stats" /\ fn \in {DownApis[1], DownApis[2]}

\* C7: in stock_overview a failing section is recorded ok:false with an error,
\* for that section only, and all five sections are attempted, one after the
\* other in the fixed order.
C7_SectionsIsolatedInOrder ==
    OverviewDone =>
        /\ \A name \in SectionNames : sections[name] # NotCalled
        /\ \A name \in SectionNames :
              IF name \in FailedUpstream
              THEN ~sections[name].ok /\ HasError(sections[name])
              ELSE sections[name].ok
        /\ \A m, n \in 1..Len(calls) : m < n => SectionOf(calls[m].fn) <= SectionOf(calls[n].fn)

\* the scan of stock_overview has done its last day
ScanOver ==
    /\ req.op = "stock_overview"
    /\ pc \in {"research_report", "done"}
    /\ scan # NoScan

\* the invocations of fn that returned
Returns(fn) == Cardinality({n \in 1..Len(calls) : calls[n].fn = fn /\ calls[n].kind = "ok"})

\* the ten days from day d back, as limit_pool is asked for them
TenDaysBack(d) == [k \in 1..ScanDays |-> Strftime(d - (k - 1))]

\* C8: the scan asks limit_pool for each of the ten calendar days from today
\* back to nine days ago exactly once; a failing day adds one error entry and
\* does not stop the scan; the first three errors are shown; the counts are
\* the sums of the hits of the days that succeeded.
C8_ScanCoversTenDaysOnce ==
    ScanOver =>
        LET ok_days == Returns("stock_zt_pool_em")
            down_days == Returns("stock_dt_pool_em")
            clean_symbol == CleanSymbol(req.symbol)
            up_hits == TargetCount(List(TableOne.rows), req.symbol, clean_symbol)
            down_hits == TargetCount(List(TableTwo.rows), req.symbol, clean_symbol)
            stats == sections.limit_stats
        IN  /\ \E d \in StartClock..(StartClock + MaxTicks) : scan.queried = TenDaysBack(d)
            /\ Len(scan.limit_errors) = ScanDays - ok_days
            /\ stats.error = IF ok_days = ScanDays THEN NoneT
                             ELSE Join(Head_(scan.limit_errors, 3), "; ")
            /\ stats.up_count = (ok_days - down_days) * up_hits
            /\ stats.down_count = down_days * down_hits

\* the request came from the query for an overview of 贵州茅台
FromQueryOverview == "query" \in DOMAIN req /\ req.query = QueryOverview

\* C9: the query 贵州茅台怎么样 is dispatched to stock_overview with symbol
\* 600519; when upstream answers for the realtime and the fundamental
\* sections only, the result is ok:true with realtime and fundamental
\* ok:true, money_flow and research_report ok:false and limit_stats ok:true.
C9_MaotaiOverview ==
    /\ (FromQueryOverview /\ pc # "start") =>
           req.op = "stock_overview" /\ req.symbol = Code600519
    /\ (FromQueryOverview /\ pc = "done"
            /\ FailedUpstream = {"money_flow", "limit_stats", "research_report"}) =>
           /\ result.kind = "result" /\ result.ok
           /\ result.data.realtime.ok /\ result.data.fundamental.ok
           /\ ~result.data.money_flow.ok /\ ~result.data.research_report.ok
           /\ result.data.limit_stats.ok

\* C9, its case: the overview asked by the query has returned with realtime
\* and fundamentals answered and the three other sections failing upstream
C9_Witness ==
    /\ FromQueryOverview /\ pc = "done"
    /\ FailedUpstream = {"money_flow", "limit_stats", "research_report"}
    /\ Len(calls) >= ScanDays + 4
    /\ result.ok

\* C10: every adapter operation returns a result value whatever upstream
\* does: no exception propagates from it, and when none of the upstream
\* functions it tried returned, the result is an explicit ok:false (the
\* aggregate of stock_overview is the matter of C5).
C10_AdaptersNeverRaise ==
    AdapterDone =>
        /\ result.kind = "result"
        /\ (req.op # "stock_overview" /\ \A n \in 1..Len(calls) : calls[n].kind = "raise") =>
               ~result.ok

\* the intent object a run was dispatched with, when it came through dispatch
Dispatched == "io" \in DOMAIN req \/ "query" \in DOMAIN req
IntentObj == IF "io" \in DOMAIN req THEN req.io ELSE ParseQuery(req.query, now)

\* the intents whose dispatch needs a symbol
NeedsSymbol(io) ==
    \/ io.intent \in {STOCK_OVERVIEW, FUNDAMENTAL, RESEARCH_REPORT}
    \/ /\ io.intent = MONEY_FLOW
       /\ ~AnyIn(MarketFlowWords, io.query)
       /\ ~AnyIn(SectorFlowWords, io.query)

\* dispatch(io) has ended with the missing-symbol result, no call made
FailedEarly(io) ==
    /\ pc = "done"
    /\ req.op \in {"query", "dispatch"}
    /\ calls = <<>>
    /\ result.kind = "result"
    /\ result.ok = FALSE
    /\ result.error = MissingPrompt \o MissingExample(io.intent)
    /\ Len(MissingExample(io.intent)) > 0

\* C11: when the symbol slot is absent, dispatch of STOCK_OVERVIEW,
\* FUNDAMENTAL, RESEARCH_REPORT and of MONEY_FLOW for a query that is neither
\* a market-wide nor a sector money-flow query ends with an ok:false result
\* that carries an example message, and no adapter or upstream call is made
\* before that result
C11_MissingSymbolFailsEarly ==
    (pc # "start" /\ Dispatched)
        => \A io \in {IntentObj} :
               (NeedsSymbol(io) /\ io.symbol = NoneT) => FailedEarly(io)
C11_Witness ==
    /\ pc = "done"
    /\ "query" \in DOMAIN req
    /\ req.query = <<"zi","jin","liu","xiang">>
    /\ result.kind = "result"
    /\ result.ok = FALSE
    /\ calls = <<>>

\* ------------------ _to_records and the operations that call it, on
\* their own: the capability keeps the behaviour of upstream for the run

RowNameOnly == [mingcheng |-> <<"ping","an">>]
TableNames == Table(<<RowNameOnly, [mingcheng |-> <<"mao1","tai">>]>>)
Code300750 == <<"3","0","0","7","5","0">>
NarrowOutcomes == {Boom, Ok(TableTwo), Ok(TableNames), Ok(BadTable)}
NarrowSymbols == {Code600519, Code300750}
NarrowTops == {1, 10}

\* the calls of the operations, each with the upstream functions it may use
\* and the outcomes they have
FixedRun(requests, fns, outcomes) ==
    {[request |-> r, fns |-> fns, outcomes |-> outcomes] : r \in requests}
PassRuns ==
    FixedRun([op : {"index_spot"}, top_n : {1, 300}],
             {"stock_zh_index_spot_sina", "stock_zh_index_spot_em"}, Outcomes)
    \cup FixedRun([op : {"stock_kline"}, symbol : {Code600519}, period : {<<"daily">>},
                   top_n : {1, 10}], {"stock_zh_a_hist"}, Outcomes)
    \cup FixedRun([op : {"stock_intraday"}, symbol : {Code600519}, period : {<<"5">>},
                   top_n : {1}], {"stock_zh_a_minute", "stock_intraday_em"}, Outcomes)
    \cup FixedRun([op : {"limit_pool"}, date : {NoneT}, top_n : {1, 20}],
                  {"stock_zt_pool_em", "stock_zt_pool_dtgc_em", "stock_dt_pool_em"}, Outcomes)
    \cup FixedRun([op : {"news"}, top_n : {0, 20}], {"stock_news_em"}, Outcomes)
    \cup FixedRun([op : {"research_report"}, symbol : {Code600519}, top_n : {3}],
                  {"stock_research_report_em"}, Outcomes)
    \cup FixedRun([op : {"money_flow"}, symbol : {Code600519}, top_n : {10}],
                  {"stock_individual_fund_flow"}, Outcomes)
    \cup FixedRun([op : {"fundamental"}, symbol : {Code600519}, top_n : {1}],
                  {"stock_financial_abstract_ths", "stock_financial_analysis_indicator"},
                  Outcomes)
    \cup FixedRun([op : {"market_money_flow"}, top_n : {2}, date : {<<"zuo","tian">>}],
                  {"stock_market_fund_flow", "stock_hsgt_fund_flow_summary_em",
                   "stock_hsgt_north_net_flow_in_em", "stock_hsgt_hist_em"},
                  {Boom, Ok(TableTwo), Ok(BadTable)})
    \cup FixedRun([op : {"sector_money_flow"}, top_n : {0, 2}],
                  {"stock_sector_fund_flow_rank", "stock_fund_flow_industry",
                   "stock_sector_fund_flow_summary"}, Outcomes)
    \cup FixedRun([op : {"sector_analysis"}, sector_type : {Concept, <<"industry">>},
                   top_n : {2}], {"stock_sector_name_code", "stock_sector_spot"}, Outcomes)
NarrowRuns ==
    FixedRun([op : {"margin_lhb"}, symbol : NarrowSymbols, date : {NoneT}, top_n : NarrowTops],
             {"stock_margin_detail", "stock_margin_detail_em",
              "stock_margin_underlying_info_szse", "stock_margin_underlying_info_sse",
              "stock_lhb_detail_em", "stock_lhb_ggtj_sina"}, NarrowOutcomes)
    \cup FixedRun([op : {"fund_bond"}, scope : {<<"fund">>}, symbol : NarrowSymbols,
                   top_n : NarrowTops],
                  {"fund_etf_hist_em", "fund_etf_spot_em", "fund_open_fund_daily_em"},
                  NarrowOutcomes)
    \cup FixedRun([op : {"fund_bond"}, scope : {<<"bond">>}, symbol : NarrowSymbols,
                   top_n : NarrowTops],
                  {"bond_zh_hs_cov_spot", "bond_zh_hs_cov_daily"}, NarrowOutcomes)
    \cup FixedRun([op : {"hk_us_market"}, market : {<<"u","s">>, <<"h","k">>},
                   top_n : NarrowTops, symbol : NarrowSymbols],
                  {"stock_hk_spot_em", "stock_us_spot_em"}, NarrowOutcomes)
    \cup FixedRun([op : {"derivatives"}, scope : {<<"futures">>}, symbol : NarrowSymbols,
                   top_n : NarrowTops],
                  {"futures_display_main_sina", "match_main_contract", "futures_main_sina"},
                  NarrowOutcomes)
    \cup FixedRun([op : {"derivatives"}, scope : {<<"options">>}, symbol : NarrowSymbols,
                   top_n : NarrowTops],
                  {"option_current_em", "option_cffex_hs300_spot_sina",
                   "option_finance_board"}, NarrowOutcomes)
NarrowOps == {"margin_lhb", "fund_bond", "hk_us_market", "derivatives"}
FixedCaps(run) ==
    {[ready |-> TRUE, has |-> AllApis, out |-> <<>>, byfn |-> f] :
        f \in [run.fns -> run.outcomes]}

\* sector_analysis over every short ranking table, from the first operation
RowWord == [mingcheng |-> <<"bai","jiu">>, zhangdiefu |-> <<"-","-">>]
RankRows == {RowUp, RowDown, RowFlat, RowOther, RowWord}
MaxRankRows == 3
RECURSIVE RowLists(_)
RowLists(n) ==
    IF n = 0 THEN {<<>>}
    ELSE {<<>>} \cup {Append(l, r) : l \in RowLists(n - 1), r \in RankRows}
RankRuns ==
    FixedRun([op : {"sector_analysis"}, sector_type : {<<"industry">>}, top_n : {1, 2, 3}],
             {"stock_sector_name_code"}, {Ok(Table(rows)) : rows \in RowLists(MaxRankRows)})

\* the operations that turn the table round, over a table of five rows
ReverseTops == {1, 2, 5, 7}
ReverseOutcomes == {Boom, Ok(TableRank)}
ReverseRuns ==
    FixedRun([op : {"stock_kline"}, symbol : {Code600519}, period : {<<"daily">>},
              top_n : ReverseTops], {"stock_zh_a_hist"}, ReverseOutcomes)
    \cup FixedRun([op : {"stock_intraday"}, symbol : {Code600519}, period : {<<"5">>},
                   top_n : ReverseTops], {"stock_zh_a_minute", "stock_intraday_em"},
                  ReverseOutcomes)
    \cup FixedRun([op : {"money_flow"}, symbol : {Code600519}, top_n : ReverseTops],
                  {"stock_individual_fund_flow"}, ReverseOutcomes)
    \cup FixedRun([op : {"fundamental"}, symbol : {Code600519}, top_n : ReverseTops],
                  {"stock_financial_abstract_ths", "stock_financial_analysis_indicator"},
                  ReverseOutcomes)
    \cup FixedRun([op : {"market_money_flow"}, top_n : ReverseTops, date : {NoneT}],
                  {"stock_market_fund_flow", "stock_hsgt_fund_flow_summary_em",
                   "stock_hsgt_north_net_flow_in_em", "stock_hsgt_hist_em"},
                  ReverseOutcomes)

\* the operations built on one resolution, upstream returning None too
NoneOutcomes == {Boom, Ok(NoPayload), Ok(TableTwo)}
NoneRuns ==
    FixedRun([op : {"market_money_flow"}, top_n : {2}, date : {NoneT}],
             {"stock_market_fund_flow", "stock_hsgt_fund_flow_summary_em",
              "stock_hsgt_north_net_flow_in_em", "stock_hsgt_hist_em"}, NoneOutcomes)
    \cup FixedRun([op : {"fund_bond"}, scope : {<<"fund">>}, symbol : {NoneT, Code600519},
                   top_n : {2}],
                  {"fund_etf_hist_em", "fund_etf_spot_em", "fund_open_fund_daily_em"},
                  NoneOutcomes)
    \cup FixedRun([op : {"fund_bond"}, scope : {<<"bond">>}, symbol : {NoneT}, top_n : {2}],
                  {"bond_zh_hs_cov_spot", "bond_zh_hs_cov_daily"}, NoneOutcomes)
    \cup FixedRun([op : {"hk_us_market"}, market : {<<"u","s">>, <<"h","k">>}, top_n : {2},
                   symbol : {NoneT}], {"stock_hk_spot_em", "stock_us_spot_em"}, NoneOutcomes)
    \cup FixedRun([op : {"derivatives"}, scope : {<<"futures">>}, symbol : {NoneT},
                   top_n : {2}],
                  {"futures_display_main_sina", "match_main_contract", "futures_main_sina"},
                  NoneOutcomes)
    \cup FixedRun([op : {"derivatives"}, scope : {<<"options">>}, symbol : {NoneT},
                   top_n : {2}],
                  {"option_current_em", "option_cffex_hs300_spot_sina",
                   "option_finance_board"}, NoneOutcomes)
    \cup FixedRun([op : {"margin_lhb"}, symbol : {NoneT}, date : {NoneT}, top_n : {2}],
                  {"stock_margin_detail", "stock_margin_detail_em",
                   "stock_margin_underlying_info_szse", "stock_margin_underlying_info_sse",
                   "stock_lhb_detail_em", "stock_lhb_ggtj_sina"}, NoneOutcomes)

\* the payloads and the numbers of rows _to_records is given
MaxTop == 6
Plain == [type |-> "plain"]
RecordsPayloads == {NoPayload, TableNone, TableOne, TableTwo, TableRank, BadTable, Plain}
RecordsRequests == [op : {"_to_records"}, data : RecordsPayloads, top_n : -1..MaxTop]

InitRecords ==
    /\ \/ \E run \in PassRuns \cup NarrowRuns \cup RankRuns \cup ReverseRuns \cup NoneRuns :
              /\ req = run.request
              /\ ak \in FixedCaps(run)
              /\ pc = "call"
       \/ /\ req \in RecordsRequests
          /\ ak = [ready |-> TRUE, has |-> {}, out |-> <<>>, byfn |-> <<>>]
          /\ pc = "start"
    /\ now = StartClock
    /\ calls = <<>>
    /\ sections = NoSections
    /\ scan = NoScan
    /\ poolenv = NoPool
    /\ result = NoResult

\* a helper called on its own, yielding v
Value(v) == [kind |-> "value", v |-> v]
Yield(v) ==
    /\ result' = Value(v)
    /\ pc' = "done"
    /\ UNCHANGED <<req, ak, now, calls, sections, scan, poolenv>>

ApplyToRecords ==
    /\ pc = "start" /\ req.op = "_to_records"
    /\ \E v \in {ToRecords(req.data, req.top_n)} : Yield(v)

FixedIndexSpot ==
    /\ pc = "call" /\ req.op = "index_spot"
    /\ \E r \in {IndexSpot(ak, req.top_n)} : Finish(r)
FixedStockKline ==
    /\ pc = "call" /\ req.op = "stock_kline"
    /\ \E r \in {StockKline(ak, now, req.symbol, req.period, req.top_n)} : Finish(r)
FixedStockIntraday ==
    /\ pc = "call" /\ req.op = "stock_intraday"
    /\ \E r \in {StockIntraday(ak, req.symbol, req.period, req.top_n)} : Finish(r)
FixedLimitPool ==
    /\ pc = "call" /\ req.op = "limit_pool"
    /\ \E r \in {LimitPool(ak, now, req.date, req.top_n)} : Finish(r)
FixedNews ==
    /\ pc = "call" /\ req.op = "news"
    /\ \E r \in {News(ak, req.top_n)} : Finish(r)
FixedResearchReport ==
    /\ pc = "call" /\ req.op = "research_report"
    /\ \E r \in {ResearchReport(ak, req.symbol, req.top_n)} : Finish(r)
FixedMoneyFlow ==
    /\ pc = "call" /\ req.op = "money_flow"
    /\ \E r \in {MoneyFlow(ak, req.symbol, req.top_n)} : Finish(r)
FixedFundamental ==
    /\ pc = "call" /\ req.op = "fundamental"
    /\ \E r \in {Fundamental(ak, req.symbol, req.top_n)} : Finish(r)
FixedMarketMoneyFlow ==
    /\ pc = "call" /\ req.op = "market_money_flow"
    /\ \E r \in {MarketMoneyFlow(ak, now, req.top_n, req.date)} : Finish(r)
FixedSectorMoneyFlow ==
    /\ pc = "call" /\ req.op = "sector_money_flow"
    /\ \E r \in {SectorMoneyFlow(ak, req.top_n)} : Finish(r)
FixedSectorAnalysis ==
    /\ pc = "call" /\ req.op = "sector_analysis"
    /\ \E r \in {SectorAnalysis(ak, req.sector_type, req.top_n)} : Finish(r)
FixedMarginLhb ==
    /\ pc = "call" /\ req.op = "margin_lhb"
    /\ \E r \in {MarginLhb(ak, now, req.symbol, req.date, req.top_n)} : Finish(r)
FixedFundBond ==
    /\ pc = "call" /\ req.op = "fund_bond"
    /\ \E r \in {FundBond(ak, now, req.scope, req.symbol, req.top_n)} : Finish(r)
FixedHkUsMarket ==
    /\ pc = "call" /\ req.op = "hk_us_market"
    /\ \E r \in {HkUsMarket(ak, req.market, req.top_n, req.symbol)} : Finish(r)
FixedDerivatives ==
    /\ pc = "call" /\ req.op = "derivatives"
    /\ \E r \in {Derivatives(ak, req.scope, req.symbol, req.top_n)} : Finish(r)

NextRecords ==
    \/ ApplyToRecords
    \/ FixedIndexSpot
    \/ FixedStockKline
    \/ FixedStockIntraday
    \/ FixedLimitPool
    \/ FixedNews
    \/ FixedResearchReport
    \/ FixedMoneyFlow
    \/ FixedFundamental
    \/ FixedMarketMoneyFlow
    \/ FixedSectorMoneyFlow
    \/ FixedSectorAnalysis
    \/ FixedMarginLhb
    \/ FixedFundBond
    \/ FixedHkUsMarket
    \/ FixedDerivatives

SpecRecords == InitRecords /\ [][NextRecords]_vars

\* the payload upstream returned for the function the resolver settled on
PayloadFrom(api) == ak.byfn[api].payload
NoRowMatches(rows, symbol) == \A n \in 1..Len(rows) : ~RowMatches(rows[n], symbol)

\* items are the first top_n of rows, every field of a row as it was
SameRows(items, rows, top_n) ==
    /\ Len(items) = Len(Head_(rows, top_n))
    /\ \A n \in 1..Len(items) : \A k \in DOMAIN rows[n] :
           k \in DOMAIN items[n] /\ items[n][k] = rows[n][k]

\* when the payload of api is a table no row of which matches symbol, items
\* are its rows
KeepsUnmatched(api, symbol, items) ==
    (/\ api # None
     /\ PayloadFrom(api).type = "table"
     /\ NoRowMatches(PayloadFrom(api).rows, symbol))
        => /\ IsList(items)
           /\ SameRows(items.items, PayloadFrom(api).rows, req.top_n)

NarrowDone == pc = "done" /\ req.op \in NarrowOps

\* the symbol an operation filters by
FilterSymbol ==
    IF req.op = "margin_lhb" \/ (req.op = "fund_bond" /\ req.scope = <<"fund">>)
    THEN CleanSymbol(req.symbol)
    ELSE req.symbol

\* C12: symbol-scoped filtering never raises, and when zero rows match the
\* target symbol the records an adapter is left with are the original record
\* set, unchanged: in margin_lhb (margin list and block-trade list),
\* fund_bond, hk_us_market and derivatives, also when no row has any of the
\* known code fields
C12_ZeroMatchKeepsRecords ==
    NarrowDone =>
        /\ result.kind = "result"
        /\ (result.ok /\ req.op = "margin_lhb")
               => /\ KeepsUnmatched(result.data.margin_api, FilterSymbol,
                                    result.data.margin_items)
                  /\ KeepsUnmatched(result.data.lhb_api, FilterSymbol,
                                    result.data.lhb_items)
        /\ (result.ok /\ req.op # "margin_lhb")
               => KeepsUnmatched(result.api, FilterSymbol, result.data.items)

\* the same of the three operations other than margin_lhb
C12_FallbackOutsideMarginLhb ==
    (NarrowDone /\ req.op # "margin_lhb")
        => /\ result.kind = "result"
           /\ result.ok => KeepsUnmatched(result.api, FilterSymbol, result.data.items)

ToRecordsDone == pc = "done" /\ req.op = "_to_records"

\* C13: of a tabular payload, _to_records(payload, n) with n > 0 yields at
\* most n records, the first n rows in order, and _to_records(payload, 0)
\* yields every row
C13_ClipsToFirstN ==
    (ToRecordsDone /\ req.data.type = "table")
        => /\ IsList(result.v)
           /\ req.top_n > 0
                  => /\ Len(result.v.items) <= req.top_n
                     /\ Len(result.v.items)
                            = (IF Len(req.data.rows) < req.top_n THEN Len(req.data.rows)
                               ELSE req.top_n)
                     /\ \A n \in 1..Len(result.v.items) : result.v.items[n] = req.data.rows[n]
           /\ req.top_n = 0 => result.v.items = req.data.rows
C13_Witness ==
    /\ ToRecordsDone
    /\ req.data = TableRank
    /\ req.top_n = 2
    /\ result.v.items = <<RowFlat, RowDown>>

\* an operation of the adapter, called on its own, has ended
FixedDone == pc = "done" /\ req.op # "_to_records"

\* upstream returned a payload whose projection to records fails, so the
\* operation got the str() of it from _to_records
BadCalls ==
    {n \in 1..Len(calls) : calls[n].kind = "ok"
                           /\ Invoke(ak, calls[n].fn, calls[n].kw).payload.type = "badtable"}
ReceivedFallback == BadCalls # {}

\* the fields of a result's data that hold records
ItemFields == {"items", "up_items", "down_items", "margin_items", "lhb_items"}
EmptyOrPassThrough(v) == v = List(<<>>) \/ v.type = "str"

\* C14: _to_records returns an empty sequence when the payload is absent, and
\* the str() of the payload when projecting it to records fails; an operation
\* that receives that string still returns a result, with an empty or a
\* passed-through item list
C14_FallbackStillReturns ==
    /\ (ToRecordsDone /\ req.data.type = "none") => result = Value(List(<<>>))
    /\ (ToRecordsDone /\ req.data.type = "badtable") => result = Value(StrOf(req.data))
    /\ (FixedDone /\ ReceivedFallback)
           => /\ result.kind = "result"
              /\ result.ok
              /\ \E f \in ItemFields \cap DOMAIN result.data :
                     EmptyOrPassThrough(result.data[f])
C14_Witness ==
    /\ FixedDone
    /\ ReceivedFallback
    /\ req.op = "hk_us_market"
    /\ result.ok
    /\ result.data.items = List(<<>>)

\* ---------------------- the helpers of the adapter and of the router,
\* each called on its own

\* the texts made of at most n pieces of P, one after the other
RECURSIVE Concats(_, _)
Concats(P, n) ==
    IF n = 0 THEN {<<>>}
    ELSE LET shorter == Concats(P, n - 1)
         IN  shorter \cup {t \o piece : t \in shorter, piece \in P}

MaxSymbolLen == 4
SymbolPieces == {<<"s">>, <<"h">>, <<"z">>, <<"S">>, <<"6">>}
CleanRequests ==
    [op : {"_clean_symbol"}, symbol : {NoneT} \cup Concats(SymbolPieces, MaxSymbolLen)]

MaxDateLen == 3
DatePieces == {<<"-">>, <<"/">>, <<"2">>, <<"jin1">>}
Date20240105 == <<"2","0","2","4","0","1","0","5">>
DateValues ==
    {NoneT, <<"2","0","2","4","-","0","1","-","0","5">>, <<"2","0","2","4","/","0","1","/","0","5">>,
     Date20240105, <<"T","o","d","a","y">>}
        \cup TodayTokens \cup YesterdayTokens \cup Concats(DatePieces, MaxDateLen)
DateRequests == [op : {"_normalize_trade_date"}, value : DateValues]

MaxClassifyPieces == 3
ClassifyPieces ==
    {<<"zhang","ting">>, <<"fen","xi">>, <<"fen","shi1">>, <<"K","xian">>,
     <<"K","L","I","N","E">>, <<"zi","jin","liu">>, <<"ji","jin">>, <<"ban","kuai">>,
     <<"mao1","tai">>}
MorePieces ==
    {<<"cai","wu1">>, <<"long","hu","bang">>, <<"mei","gu">>, <<"H","K">>, <<"qi","huo">>,
     <<"da1","pan">>}
\* every text of up to MaxClassifyPieces of the first pieces, and every text
\* of two pieces
ClassifyTexts ==
    Concats(ClassifyPieces, MaxClassifyPieces) \cup Concats(ClassifyPieces \cup MorePieces, 2)
ClassifyRequests == [op : {"_classify_intent"}, text : ClassifyTexts]

\* the period keywords, and what may stand before and after one in a query
MinuteNumbers == {<<"1">>, <<"5">>, <<"1","5">>, <<"3","0">>, <<"6","0">>}
MinuteTokens(N) == {N \o <<"m">>, N \o <<"M">>, N \o <<"fen","zhong1">>}
WeeklyWords == {<<"zhou2","xian">>, <<"w","e","e","k">>}
MonthlyWords == {<<"yue","xian">>, <<"m","o","n","t","h">>}
DailyWords == {<<"ri","xian">>, <<"d","a","y">>, <<"d","a","i","l","y">>}
PeriodWords ==
    UNION {MinuteTokens(N) : N \in MinuteNumbers} \cup WeeklyWords \cup MonthlyWords
        \cup DailyWords
Fillers == {<<>>, <<"mao1","tai">>, <<" ","K","xian"," ">>}
PeriodTexts == {pre \o w \o post : pre \in Fillers, w \in PeriodWords \cup {<<>>}, post \in Fillers}
PeriodRequests == [op : {"_extract_period"}, text : PeriodTexts]

\* the parts a query is made of: what a part is (a code, a name of the
\* table, a ticker, or none of them) and the symbol it stands for
Part(text, kind, symbol) == [text |-> text, kind |-> kind, symbol |-> symbol]
Code600036 == <<"6","0","0","0","3","6">>
Aapl == <<"A","A","P","L">>
Hk00700 == <<"h","k","0","0","7","0","0">>
QueryParts ==
    {Part(<<" ">> \o Code600036 \o <<" ">>, "code", Code600036),
     Part(<<" ","S","H","0","0","0","0","0","1"," ">>, "code", <<"0","0","0","0","0","1">>),
     Part(<<"mao1","tai">>, "name", Code600519),
     Part(<<"gui","zhou1","mao1","tai">>, "name", Code600519),
     Part(<<"bi","ya","di2">>, "name", <<"0","0","2","5","9","4">>),
     Part(<<"ning","de","shi1","dai">>, "name", Code300750),
     Part(<<" ">> \o Aapl \o <<" ">>, "ticker", Aapl),
     Part(<<" ">> \o Hk00700 \o <<" ">>, "ticker", Hk00700),
     Part(<<" ","zen","me","yang"," ">>, "none", NoneT),
     Part(Code600519 \o <<"fen","shi1"," ">>, "none", NoneT),
     Part(<<" ","1","2","3","4","5","6","7"," ">>, "none", NoneT)}
MaxParts == 3
RECURSIVE PartLists(_)
PartLists(n) ==
    IF n = 0 THEN {<<>>}
    ELSE LET shorter == PartLists(n - 1)
         IN  shorter \cup {Append(l, part) : l \in shorter, part \in QueryParts}
RECURSIVE TextOf(_)
TextOf(parts) == IF parts = <<>> THEN <<>> ELSE parts[1].text \o TextOf(Tail(parts))
ParseRequests == [op : {"parse_query"}, parts : PartLists(MaxParts)]

PureRequests ==
    CleanRequests \cup DateRequests \cup ClassifyRequests \cup PeriodRequests
        \cup ParseRequests

\* the days the helpers are called on: 2026-11-03, 2026-11-01, 2026-01-01,
\* 2025-03-01 and 2024-03-01
PureDays == {StartClock, 739921, 739617, 739311, 738946}

InitPure ==
    /\ req \in PureRequests
    /\ now \in (IF req.op = "_normalize_trade_date" THEN PureDays ELSE {StartClock})
    /\ pc = "start"
    /\ ak = [ready |-> TRUE, has |-> {}, out |-> <<>>, byfn |-> <<>>]
    /\ calls = <<>>
    /\ sections = NoSections
    /\ scan = NoScan
    /\ poolenv = NoPool
    /\ result = NoResult

ApplyCleanSymbol ==
    /\ pc = "start" /\ req.op = "_clean_symbol"
    /\ \E v \in {CleanSymbol(req.symbol)} : Yield(v)

ApplyNormalizeTradeDate ==
    /\ pc = "start" /\ req.op = "_normalize_trade_date"
    /\ \E v \in {NormalizeTradeDate(req.value, now)} : Yield(v)

ApplyClassifyIntent ==
    /\ pc = "start" /\ req.op = "_classify_intent"
    /\ \E v \in {ClassifyIntent(req.text)} : Yield(v)

ApplyExtractPeriod ==
    /\ pc = "start" /\ req.op = "_extract_period"
    /\ \E v \in {ExtractPeriod(req.text)} : Yield(v)

ApplyParseQuery ==
    /\ pc = "start" /\ req.op = "parse_query"
    /\ \E v \in {ParseQuery(TextOf(req.parts), now)} : Yield(v)

NextPure ==
    \/ ApplyCleanSymbol
    \/ ApplyNormalizeTradeDate
    \/ ApplyClassifyIntent
    \/ ApplyExtractPeriod
    \/ ApplyParseQuery

SpecPure == InitPure /\ [][NextPure]_vars

Applied(op) == pc = "done" /\ req.op = op

\* C15: symbol cleaning is idempotent: cleaning a cleaned symbol gives the
\* cleaned symbol again
C15_CleanSymbolIdempotent ==
    Applied("_clean_symbol") => CleanSymbol(result.v) = result.v

\* the days of PureDays and the days before them, as the calendar has them
DayText ==
    (739923 :> <<"2","0","2","6","1","1","0","3">>)
        @@ (739921 :> <<"2","0","2","6","1","1","0","1">>)
        @@ (739617 :> <<"2","0","2","6","0","1","0","1">>)
        @@ (739311 :> <<"2","0","2","5","0","3","0","1">>)
        @@ (738946 :> <<"2","0","2","4","0","3","0","1">>)
DayBeforeText ==
    (739923 :> <<"2","0","2","6","1","1","0","2">>)
        @@ (739921 :> <<"2","0","2","6","1","0","3","1">>)
        @@ (739617 :> <<"2","0","2","5","1","2","3","1">>)
        @@ (739311 :> <<"2","0","2","5","0","2","2","8">>)
        @@ (738946 :> <<"2","0","2","4","0","2","2","9">>)
WithoutSeparators(value) == SelectSeq(value, LAMBDA c : c \notin {"-", "/"})

\* C16: _normalize_trade_date maps "today", an absent (or empty) value and
\* the localized today tokens to the current date as YYYYMMDD, the yesterday
\* tokens to the previous calendar day as YYYYMMDD, and any other value to
\* itself with every "-" and "/" removed
C16_NormalizesTradeDate ==
    Applied("_normalize_trade_date")
        => IF req.value \in {NoneT, <<>>} \cup TodayTokens THEN result.v = DayText[now]
           ELSE IF req.value \in YesterdayTokens THEN result.v = DayBeforeText[now]
           ELSE result.v = WithoutSeparators(req.value)
C16_Witness ==
    /\ Applied("_normalize_trade_date")
    /\ req.value = <<"2","0","2","4","-","0","1","-","0","5">>
    /\ result.v = Date20240105
C16_WitnessYesterday ==
    /\ Applied("_normalize_trade_date")
    /\ req.value = <<"zuo","tian">>
    /\ now = 738946
    /\ result.v = <<"2","0","2","4","0","2","2","9">>

\* C17: a query that holds a limit-up/down word and a general analysis word
\* is classified LIMIT_STATS, not STOCK_OVERVIEW, whatever else it holds
C17_LimitBeforeOverview ==
    (/\ Applied("_classify_intent")
     /\ \E k \in LimitWords : Contains(req.text, k)
     /\ \E k \in OverviewWords : Contains(req.text, k))
        => result.v = LIMIT_STATS
C17_Witness ==
    /\ Applied("_classify_intent")
    /\ req.text = <<"mao1","tai","fen","xi","zhang","ting">>
    /\ result.v = LIMIT_STATS

\* the rules as the source lists them, top to bottom: the keywords looked for
\* in the text, the keywords looked for in the lower-cased text, the intent
IntentRules ==
    << [words |-> LimitWords, lower |-> {}, intent |-> LIMIT_STATS],
       [words |-> IntradayWords, lower |-> {}, intent |-> INTRADAY_ANALYSIS],
       [words |-> KlineWords, lower |-> {<<"k","l","i","n","e">>}, intent |-> KLINE_ANALYSIS],
       [words |-> OverviewWords, lower |-> {}, intent |-> STOCK_OVERVIEW],
       [words |-> MoneyFlowWords, lower |-> {}, intent |-> MONEY_FLOW],
       [words |-> FundamentalWords, lower |-> {}, intent |-> FUNDAMENTAL],
       [words |-> MarginWords, lower |-> {}, intent |-> MARGIN_LHB],
       [words |-> HkUsWords, lower |-> HkUsLowerWords, intent |-> HK_US_MARKET],
       [words |-> DerivativesWords, lower |-> {}, intent |-> DERIVATIVES],
       [words |-> FundBondWords, lower |-> {}, intent |-> FUND_BOND],
       [words |-> SectorWords, lower |-> {}, intent |-> SECTOR_ANALYSIS],
       [words |-> IndexWords, lower |-> {}, intent |-> INDEX_REALTIME] >>
RuleMatches(n, text) ==
    \/ \E k \in IntentRules[n].words : Contains(text, k)
    \/ \E k \in IntentRules[n].lower : Contains(Lower(text), k)
Matching(text) == {n \in 1..Len(IntentRules) : RuleMatches(n, text)}
IntentEnumeration ==
    {INDEX_REALTIME, KLINE_ANALYSIS, INTRADAY_ANALYSIS, LIMIT_STATS, MONEY_FLOW, FUNDAMENTAL,
     STOCK_OVERVIEW, MARGIN_LHB, SECTOR_ANALYSIS, DERIVATIVES, FUND_BOND, HK_US_MARKET}

\* C18: _classify_intent returns, for every text, the intent of the first
\* rule in the listed order one of whose keywords is in the text, and
\* INDEX_REALTIME when no rule matches; the value is one of the intents of
\* the enumeration
C18_FirstMatchingRule ==
    Applied("_classify_intent")
        => /\ result.kind = "value"
           /\ result.v \in IntentEnumeration
           /\ \A n \in Matching(req.text) :
                  (\A m \in Matching(req.text) : n <= m) => result.v = IntentRules[n].intent
           /\ Matching(req.text) = {} => result.v = INDEX_REALTIME
C18_Witness ==
    /\ Applied("_classify_intent")
    /\ req.text = <<"ban","kuai","ji","jin","mao1","tai">>
    /\ Matching(req.text) = {10, 11}
    /\ result.v = FUND_BOND

\* the text is the period keyword w with nothing of a period around it
OnlyKeyword(text, w) == \E pre \in Fillers, post \in Fillers : text = pre \o w \o post

\* C19: a query whose only period keyword is the token for N minutes ("Nm"
\* or "N分钟", N one of 1, 5, 15, 30, 60) yields the period N; a weekly, a
\* monthly or a daily keyword yields the period of that name; a query with no
\* period keyword yields no period
C19_EachTokenItsOwnPeriod ==
    Applied("_extract_period")
        => /\ \A N \in MinuteNumbers : \A w \in MinuteTokens(N) :
                  OnlyKeyword(req.text, w) => result.v = N
           /\ \A w \in WeeklyWords : OnlyKeyword(req.text, w) => result.v = <<"weekly">>
           /\ \A w \in MonthlyWords : OnlyKeyword(req.text, w) => result.v = <<"monthly">>
           /\ \A w \in DailyWords : OnlyKeyword(req.text, w) => result.v = <<"daily">>
           /\ OnlyKeyword(req.text, <<>>) => result.v = NoneT

\* the same of every keyword but the two tokens for 15 minutes
C19_AllButFifteen ==
    Applied("_extract_period")
        => /\ \A N \in MinuteNumbers \ {<<"1","5">>} : \A w \in MinuteTokens(N) :
                  OnlyKeyword(req.text, w) => result.v = N
           /\ \A w \in WeeklyWords : OnlyKeyword(req.text, w) => result.v = <<"weekly">>
           /\ \A w \in MonthlyWords : OnlyKeyword(req.text, w) => result.v = <<"monthly">>
           /\ \A w \in DailyWords : OnlyKeyword(req.text, w) => result.v = <<"daily">>
           /\ OnlyKeyword(req.text, <<>>) => result.v = NoneT

\* the parts of a kind in a query, by position
PartsOf(parts, kind) == {n \in 1..Len(parts) : parts[n].kind = kind}
FirstPart(parts, kind) == CHOOSE n \in PartsOf(parts, kind) : \A m \in PartsOf(parts, kind) : n <= m
LongestNames(parts) ==
    {n \in PartsOf(parts, "name") :
        \A m \in PartsOf(parts, "name") : Len(parts[m].text) <= Len(parts[n].text)}

\* the symbol is the one the first rule that matches gives: the first code,
\* else a longest name, else the first ticker, else none
DecidedByFirstRule(parts, symbol) ==
    IF PartsOf(parts, "code") # {} THEN symbol = parts[FirstPart(parts, "code")].symbol
    ELSE IF PartsOf(parts, "name") # {}
    THEN \E n \in LongestNames(parts) : symbol = parts[n].symbol
    ELSE IF PartsOf(parts, "ticker") # {} THEN symbol = parts[FirstPart(parts, "ticker")].symbol
    ELSE symbol = NoneT

SixDigits(symbol) == Len(symbol) = 6 /\ \A n \in 1..6 : IsDigit(symbol[n])
IsTicker(symbol) ==
    \/ Len(symbol) \in 1..5 /\ \A n \in 1..Len(symbol) : IsUpper(symbol[n])
    \/ /\ Len(symbol) \in {6, 7}
       /\ SubSeq(symbol, 1, 2) = <<"h","k">>
       /\ \A n \in 3..Len(symbol) : IsDigit(symbol[n])

QueryKline30 == <<"mao1","tai","jin2","3","0","ri","K","xian">>
Daily == <<"daily">>

\* top_n of dispatch when the top_n slot is absent, intent by intent
DefaultLimits ==
    << <<KLINE_ANALYSIS, 10>>, <<INTRADAY_ANALYSIS, 30>>, <<LIMIT_STATS, 20>>,
       <<MONEY_FLOW, 10>>, <<FUNDAMENTAL, 20>>, <<MARGIN_LHB, 10>>,
       <<RESEARCH_REPORT, 10>>, <<SECTOR_ANALYSIS, 10>>, <<FUND_BOND, 10>>,
       <<HK_US_MARKET, 10>>, <<DERIVATIVES, 10>> >>
HasDefaultLimit(intent) == \E n \in 1..Len(DefaultLimits) : DefaultLimits[n][1] = intent
DefaultLimit(intent) ==
    DefaultLimits[CHOOSE n \in 1..Len(DefaultLimits) : DefaultLimits[n][1] = intent][2]

\* dispatch has handed the request to an adapter operation
AdapterCalled == Dispatched /\ pc # "start" /\ req.op \notin {"query", "dispatch"}

\* the keyword argument key of an upstream call
KwOf(kw, key) == kw[CHOOSE n \in 1..Len(kw) : kw[n][1] = key][2]

\* C21: the query "maotai jin 30 ri K xian" parses to symbol 600519, top_n 30
\* and no period, and dispatch calls stock_kline with period daily and top_n
\* 30 (upstream is asked for daily bars); whenever the period slot is absent
\* the K-line call gets period daily, and whenever the top_n slot is absent an
\* adapter call gets the default top_n of its intent
C21_KlineScenarioAndDefaults ==
    (Dispatched /\ pc # "start") =>
        \A io \in {IntentObj} :
            /\ ("query" \in DOMAIN req /\ req.query = QueryKline30) =>
                   /\ io.intent = KLINE_ANALYSIS
                   /\ io.symbol = Code600519
                   /\ io.top_n = 30
                   /\ io.period = NoneT
                   /\ req.op = "stock_kline"
                   /\ req.symbol = Code600519
                   /\ req.period = Daily
                   /\ req.top_n = 30
                   /\ \A n \in 1..Len(calls) :
                          /\ calls[n].fn = "stock_zh_a_hist"
                          /\ KwOf(calls[n].kw, "period") = Daily
                          /\ KwOf(calls[n].kw, "symbol") = Code600519
            /\ io.intent = KLINE_ANALYSIS =>
                   /\ req.op = "stock_kline"
                   /\ io.period = NoneT => req.period = Daily
                   /\ io.period \notin {NoneT, <<>>} => req.period = io.period
            /\ (AdapterCalled /\ HasDefaultLimit(io.intent) /\ io.top_n = NoInt) =>
                   req.top_n = DefaultLimit(io.intent)
            /\ (AdapterCalled /\ HasDefaultLimit(io.intent) /\ io.top_n > 0
                    /\ io.intent # RESEARCH_REPORT) =>
                   req.top_n = io.top_n
C21_Witness ==
    /\ pc = "done"
    /\ "query" \in DOMAIN req
    /\ req.query = QueryKline30
    /\ req.op = "stock_kline"
    /\ req.top_n = 30
    /\ Len(calls) = 1
    /\ result.kind = "result"
    /\ result.ok = TRUE
C21_WitnessAbsentLimit ==
    /\ pc = "done"
    /\ "io" \in DOMAIN req
    /\ req.io.intent = KLINE_ANALYSIS
    /\ req.io.top_n = NoInt
    /\ req.io.period = NoneT
    /\ req.op = "stock_kline"
    /\ req.top_n = 10
    /\ req.period = Daily


\* ---------------------------------- the limit-up scenario end to end

QueryLimitToday == <<"jin1","ri","zhang","ting">>
LimitTodayAsked == Dispatched /\ pc # "start" /\ "query" \in DOMAIN req /\ req.query = QueryLimitToday

\* YYYYMMDD as YYYY-MM-DD
Dashed(d) == SubSeq(d, 1, 4) \o <<"-">> \o SubSeq(d, 5, 6) \o <<"-">> \o SubSeq(d, 7, 8)

\* the date limit_pool worked with: the one it asked upstream for and the
\* one in its result
PoolDateIs(d) ==
    /\ \A n \in 1..Len(calls) : KwOf(calls[n].kw, "date") = d
    /\ (pc = "done" /\ result.kind = "result" /\ result.ok) => result.data.date = d

\* C22 as stated: the query "jinri zhangting" parses to intent LIMIT_STATS
\* with the date slot absent, and limit_pool resolves the date to today's date
\* as YYYYMMDD
C22_DateSlotAbsent ==
    LimitTodayAsked =>
        /\ IntentObj.intent = LIMIT_STATS
        /\ IntentObj.date = NoneT
        /\ req.op = "limit_pool"
        /\ req.date = NoneT
        /\ PoolDateIs(DayText[now])

\* C22, amended: the query "jinri zhangting" parses to intent LIMIT_STATS with
\* the date slot holding today's date as YYYY-MM-DD (the word for today is
\* resolved by the slot extractor), dispatch hands that date to limit_pool,
\* and limit_pool asks upstream for, and returns, the same day as YYYYMMDD
C22_DateSlotIsToday ==
    LimitTodayAsked =>
        /\ IntentObj.intent = LIMIT_STATS
        /\ IntentObj.date = Dashed(DayText[now])
        /\ req.op = "limit_pool"
        /\ req.date = Dashed(DayText[now])
        /\ PoolDateIs(DayText[now])
C22_Witness ==
    /\ LimitTodayAsked
    /\ pc = "done"
    /\ req.date = <<"2","0","2","6","-","1","1","-","0","3">>
    /\ Len(calls) > 0
    /\ result.kind = "result"
    /\ result.ok = TRUE
    /\ result.data.date = <<"2","0","2","6","1","1","0","3">>


\* ------------------------------------------- the ranking of sectors

\* the change in percent of the rows of RankRows, read off the rows by hand
\* (RowUp 2.0, RowDown "-1%", RowFlat 0.0; RowOther has none, RowWord "--")
HasPct(row) == row \in {RowUp, RowDown, RowFlat}
PctOfRow(row) == IF row = RowUp THEN 2 ELSE IF row = RowDown THEN -1 ELSE 0

\* the place of a row in a ranking, larger is earlier: rows without a
\* percent value come after every row with one
GainPlace(row) == IF HasPct(row) THEN PctOfRow(row) ELSE 0 - 100
DropPlace(row) == IF HasPct(row) THEN 0 - PctOfRow(row) ELSE 0 - 100

Times(seq, row) == Cardinality({n \in 1..Len(seq) : seq[n] = row})
PlacedAt(seq, v, Place(_)) == Cardinality({n \in 1..Len(seq) : Place(seq[n]) = v})
PlacedBefore(seq, v, Place(_)) == Cardinality({n \in 1..Len(seq) : Place(seq[n]) > v})
Smaller(a, b) == IF a < b THEN a ELSE b

\* items are the first n of rows in the order of Place
RankedFirst(items, rows, n, Place(_)) ==
    /\ Len(items) = Smaller(n, Len(rows))
    /\ \A i \in 1..Len(items) : Times(items, items[i]) <= Times(rows, items[i])
    /\ \A i \in 1..(Len(items) - 1) : Place(items[i]) >= Place(items[i + 1])
    /\ \A k \in 1..Len(rows) :
           \A v \in {Place(rows[k])} :
               PlacedAt(items, v, Place)
                   = Smaller(PlacedAt(rows, v, Place),
                             IF n > PlacedBefore(rows, v, Place)
                             THEN n - PlacedBefore(rows, v, Place) ELSE 0)

\* sector_analysis has run on a ranking table the first operation returned
RankedRun ==
    /\ pc = "done"
    /\ req.op = "sector_analysis"
    /\ "stock_sector_name_code" \in DOMAIN ak.byfn
    /\ ak.byfn["stock_sector_name_code"].kind = "ok"
    /\ ak.byfn["stock_sector_name_code"].payload.type = "table"
    /\ \A n \in 1..Len(PayloadFrom("stock_sector_name_code").rows) :
           PayloadFrom("stock_sector_name_code").rows[n] \in RankRows

\* C23: sector_analysis ranks all the records: top_gain is the first top_n
\* records in descending order of the change in percent and top_drop the
\* first top_n in ascending order, every record with a parseable value (zero
\* and negative values too) in the place of its value and the records
\* without one last in both lists; the sort never raises
C23_RanksByPercent ==
    RankedRun =>
        /\ result.kind = "result"
        /\ result.ok = TRUE
        /\ RankedFirst(result.data.top_gain.items,
                       PayloadFrom("stock_sector_name_code").rows, req.top_n, GainPlace)
        /\ RankedFirst(result.data.top_drop.items,
                       PayloadFrom("stock_sector_name_code").rows, req.top_n, DropPlace)

\* the same without zero: rankings none of whose rows has 0.0 are ranked as
\* C23 says
C23_RanksNonZero ==
    (RankedRun /\ \A n \in 1..Len(PayloadFrom("stock_sector_name_code").rows) :
                      PayloadFrom("stock_sector_name_code").rows[n] # RowFlat) =>
        /\ result.kind = "result"
        /\ result.ok = TRUE
        /\ RankedFirst(result.data.top_gain.items,
                       PayloadFrom("stock_sector_name_code").rows, req.top_n, GainPlace)
        /\ RankedFirst(result.data.top_drop.items,
                       PayloadFrom("stock_sector_name_code").rows, req.top_n, DropPlace)


\* ------------------------------------------- the external scripts

\* dispatch ran a script, which ended as Run
ScriptRan == pc = "done" /\ req.op = "script" /\ Len(calls) = 1
Run == calls[1].run
Delegated == "io" \in DOMAIN req /\ req.io.intent \in {VOLUME_ANALYSIS, PORTFOLIO}

\* C24: when dispatch delegates to a script (minute-volume analysis,
\* portfolio management), a timeout of the run is a normal failure, dispatch
\* returning an ok:false result and raising nothing, and an exit of the script
\* with a return code other than 0 gives an ok:false result whose error is
\* what the script wrote to stderr
C24_ScriptFailureIsOkFalse ==
    (ScriptRan /\ Delegated) =>
        /\ result.kind = "result"
        /\ Run.kind = "timeout" => result.ok = FALSE
        /\ (Run.kind = "exit" /\ Run.returncode # 0) =>
               /\ result.ok = FALSE
               /\ result.error = Run.stderr

\* the part that holds: a run of the minute-volume script that exits gives
\* stdout as the text when the return code is 0 and stderr as the error of an
\* ok:false result otherwise
C24_VolumeExitCodes ==
    (ScriptRan /\ Delegated /\ req.io.intent = VOLUME_ANALYSIS /\ Run.kind = "exit") =>
        /\ result.kind = "result"
        /\ result.ok = (Run.returncode = 0)
        /\ Run.returncode = 0 => result.text = Run.stdout
        /\ Run.returncode # 0 => result.error = Run.stderr


\* ------------------------------------- reversal and limit, in order

ReversingOps == {"stock_kline", "stock_intraday", "money_flow", "market_money_flow",
                 "fundamental"}

\* one of the reversing operations has answered ok from an upstream table,
\* asked for top_n > 0 rows
ReversedRun ==
    /\ pc = "done"
    /\ req.op \in ReversingOps
    /\ req.top_n > 0
    /\ result.kind = "result"
    /\ result.ok = TRUE
    /\ result.api \in DOMAIN ak.byfn
    /\ ak.byfn[result.api].kind = "ok"
    /\ PayloadFrom(result.api).type = "table"
    /\ IsList(result.data.items)

\* items are the last n of rows, the last row first
LastRowsReversed(items, rows, n) ==
    /\ Len(items) = Smaller(n, Len(rows))
    /\ \A i \in 1..Len(items) : items[i] = rows[Len(rows) + 1 - i]

\* C25 as stated: stock_kline, stock_intraday, money_flow, market_money_flow
\* and fundamental reverse before they limit: for an upstream table r1..rm
\* and top_n = n > 0 the items are rm, ..., r(m-n+1)
C25_ReversedThenLimited ==
    ReversedRun =>
        LastRowsReversed(result.data.items.items, PayloadFrom(result.api).rows, req.top_n)

\* what the code does: the same of stock_kline, money_flow,
\* market_money_flow, fundamental and of stock_intraday when its minute
\* operation answered; the tick fallback of stock_intraday reverses nothing,
\* its items are the first n rows r1, ..., rn in the order of upstream
C25_ReversedWhereReversing ==
    ReversedRun =>
        IF req.op = "stock_intraday" /\ result.api = "stock_intraday_em"
        THEN result.data.items.items = Head_(PayloadFrom(result.api).rows, req.top_n)
        ELSE LastRowsReversed(result.data.items.items, PayloadFrom(result.api).rows,
                              req.top_n)
C25_Witness ==
    /\ ReversedRun
    /\ req.op = "fundamental"
    /\ req.top_n = 2
    /\ result.api = "stock_financial_analysis_indicator"
    /\ result.data.items.items = <<RowBuy, RowOther>>
C25_WitnessKline ==
    /\ ReversedRun
    /\ req.op = "stock_kline"
    /\ req.top_n = 2
    /\ result.data.items.items = <<RowBuy, RowOther>>


\* --------------------------------- the limit statistics of an overview

\* stock_overview has ended
OverviewEnded == pc = "done" /\ req.op = "stock_overview"

\* C27: for every symbol that is not empty once cleaned and every behaviour
\* of upstream, the limit_stats section of stock_overview is ok:true, also
\* when all ten daily lookups failed, so stock_overview returns ok:true; it
\* returns ok:false only from the check of the empty symbol, never from the
\* branch for the case that every section failed
C27_LimitStatsAlwaysOk ==
    /\ (req.op = "stock_overview" /\ pc \in {"research_report", "done"}
            /\ CleanSymbol(req.symbol) # <<>>) =>
           /\ sections.limit_stats.ok = TRUE
           /\ Len(scan.queried) = ScanDays
    /\ (OverviewEnded /\ CleanSymbol(req.symbol) # <<>>) =>
           /\ result.kind = "result"
           /\ result.ok = TRUE
           /\ result.data.limit_stats.ok = TRUE
    /\ (OverviewEnded /\ CleanSymbol(req.symbol) = <<>>) =>
           /\ result = Error("stock_overview", <<"symbol is required">>)
           /\ calls = <<>>
    /\ OverviewEnded => result.kind = "result"
    /\ (OverviewEnded /\ ~result.ok) => result.error = <<"symbol is required">>
C27_Witness ==
    /\ OverviewEnded
    /\ CleanSymbol(req.symbol) # <<>>
    /\ Len(scan.limit_errors) = ScanDays
    /\ ~sections.realtime.ok
    /\ ~sections.money_flow.ok
    /\ ~sections.fundamental.ok
    /\ ~sections.research_report.ok
    /\ sections.limit_stats.ok
    /\ result.ok = TRUE


\* ------------------------------ a resolution that ends on None

\* the operations that make one resolution and answer from its payload
ResolvingOps == {"market_money_flow", "sector_money_flow", "fundamental", "sector_analysis",
                 "fund_bond", "hk_us_market", "derivatives"}
ResolvingDone == pc = "done" /\ req.op \in ResolvingOps /\ ak.ready

\* the resolution ended on a call that did not raise, which returned Payload
Answered == calls # <<>> /\ calls[Len(calls)].kind = "ok"
Payload == Invoke(ak, calls[Len(calls)].fn, calls[Len(calls)].kw).payload

\* the operations of upstream the run could have called after its last call
Untried == {fn \in DOMAIN ak.byfn : \A n \in 1..Len(calls) : calls[n].fn # fn}

\* C28: an adapter built on _call_api_candidates returns ok:true exactly when
\* the resolver returned a payload that is not None: the first call that does
\* not raise ends the resolution, and when that call returned None the
\* adapter returns ok:false with an empty error message, no later candidate
\* tried
C28_OkIffPayloadNotNone ==
    ResolvingDone =>
        /\ result.kind = "result"
        /\ \A n \in 1..(Len(calls) - 1) : calls[n].kind = "raise"
        /\ result.ok = (Answered /\ Payload.type # "none")
        /\ (Answered /\ Payload.type = "none") =>
               /\ result.ok = FALSE
               /\ result.error = <<>>
C28_Witness ==
    /\ ResolvingDone
    /\ req.op = "sector_money_flow"
    /\ Len(calls) = 1
    /\ Answered
    /\ Payload.type = "none"
    /\ ak.byfn["stock_fund_flow_industry"] = Ok(TableTwo)
    /\ "stock_fund_flow_industry" \in Untried
    /\ result.ok = FALSE
    /\ result.error = <<>>
C28_WitnessLaterCall ==
    /\ ResolvingDone
    /\ req.op = "fundamental"
    /\ Len(calls) > 5
    /\ Answered
    /\ Payload.type = "none"
    /\ result.ok = FALSE
    /\ result.error = <<>>


\* --------------------------------------- the two chains of margin_lhb

\* the operations of the two chains in the order of the code, each with the
\* number of its argument sets
MarginChain ==
    << <<"stock_margin_detail", 4>>, <<"stock_margin_detail_em", 3>>,
       <<"stock_margin_underlying_info_szse", 1>>, <<"stock_margin_underlying_info_sse", 1>> >>
LhbChain == << <<"stock_lhb_detail_em", 3>>, <<"stock_lhb_ggtj_sina", 3>> >>

\* the first operation of a chain that does not raise (0: every one raises)
FirstAnswer(chain) ==
    LET at == {n \in 1..Len(chain) : ak.byfn[chain[n][1]].kind = "ok"}
    IN  IF at = {} THEN 0 ELSE CHOOSE n \in at : \A k \in at : n <= k

\* the calls a chain makes: every argument set of the operations that raise,
\* and one call of the first that does not
RECURSIVE ArgSets(_, _)
ArgSets(chain, n) == IF n = 0 THEN 0 ELSE chain[n][2] + ArgSets(chain, n - 1)
CallsOf(chain) ==
    IF FirstAnswer(chain) = 0 THEN ArgSets(chain, Len(chain))
    ELSE ArgSets(chain, FirstAnswer(chain) - 1) + 1

\* a chain fails when it ends without a payload
Fails(chain) ==
    FirstAnswer(chain) = 0 \/ ak.byfn[chain[FirstAnswer(chain)][1]].payload.type = "none"

\* the trace of a chain, from the calls it made: empty once a call answered
TraceOf(cs) ==
    IF cs # <<>> /\ cs[Len(cs)].kind = "ok" THEN <<>>
    ELSE Join([n \in 1..Len(cs) |-> ErrorEntry(cs[n].fn, cs[n].kw, <<"boom">>)], "; ")

MarginCalls == SubSeq(calls, 1, CallsOf(MarginChain))
LhbCalls == SubSeq(calls, CallsOf(MarginChain) + 1, Len(calls))
FnsOf(chain) == {chain[n][1] : n \in 1..Len(chain)}

MarginLhbDone ==
    /\ pc = "done" /\ req.op = "margin_lhb" /\ ak.ready
    /\ FnsOf(MarginChain) \cup FnsOf(LhbChain) \subseteq DOMAIN ak.byfn

\* C29: margin_lhb runs both chains, margin first and then lhb, whatever the
\* first gave; it returns ok:false only when both chains fail, the error
\* holding both traces, and ok:true otherwise, with the trace of a failed
\* chain in margin_error or lhb_error and None there for a chain that
\* succeeded
C29_BothChainsRun ==
    MarginLhbDone =>
        /\ result.kind = "result"
        /\ Len(calls) = CallsOf(MarginChain) + CallsOf(LhbChain)
        /\ \A n \in 1..Len(MarginCalls) : MarginCalls[n].fn \in FnsOf(MarginChain)
        /\ LhbCalls # <<>>
        /\ \A n \in 1..Len(LhbCalls) : LhbCalls[n].fn \in FnsOf(LhbChain)
        /\ result.ok = ~(Fails(MarginChain) /\ Fails(LhbChain))
        /\ ~result.ok =>
               result.error = <<"margin failed: ">> \o TraceOf(MarginCalls)
                                  \o <<"; lhb failed: ">> \o TraceOf(LhbCalls)
        /\ result.ok =>
               /\ result.data.margin_error
                      = IF Fails(MarginChain) THEN TraceOf(MarginCalls) ELSE NoneT
               /\ result.data.lhb_error
                      = IF Fails(LhbChain) THEN TraceOf(LhbCalls) ELSE NoneT
C29_Witness ==
    /\ MarginLhbDone
    /\ FirstAnswer(MarginChain) = 0
    /\ ~Fails(LhbChain)
    /\ Len(calls) = 13
    /\ result.ok = TRUE
    /\ result.data.margin_error # NoneT
    /\ Len(result.data.margin_error) > 9
    /\ result.data.lhb_error = NoneT
C29_WitnessBothFail ==
    /\ MarginLhbDone
    /\ FirstAnswer(MarginChain) = 0
    /\ FirstAnswer(LhbChain) = 0
    /\ Len(calls) = 15
    /\ result.ok = FALSE
C29_WitnessFirstAnswers ==
    /\ MarginLhbDone
    /\ ~Fails(MarginChain)
    /\ Fails(LhbChain)
    /\ result.ok = TRUE
    /\ result.data.margin_error = NoneT
    /\ result.data.lhb_error # NoneT


\* --------------------------------------- the limit-down side of limit_pool

UpPool == "stock_zt_pool_em"
FirstDown == "stock_zt_pool_dtgc_em"
SecondDown == "stock_dt_pool_em"
PoolFns == {UpPool, FirstDown, SecondDown}

PoolDone ==
    /\ pc = "done" /\ req.op = "limit_pool" /\ ak.ready
    /\ PoolFns \subseteq DOMAIN ak.byfn
    /\ PoolFns \subseteq ak.has

Raised(fn) == ak.byfn[fn].kind = "raise"
FnsCalled == [n \in 1..Len(calls) |-> calls[n].fn]
BothDownErrors ==
    <<FirstDown, ": ", "boom", "; ", SecondDown, ": ", "boom">>

\* C30: when the limit-up call of limit_pool fails the result is ok:false and
\* no limit-down call is made; when it succeeds the two limit-down operations
\* are tried in the listed order up to the first success, the result is
\* ok:true whatever they gave, with down_count 0, no down_items and the
\* joined errors in down_error when both failed, and with no down_error once
\* one of them succeeded
C30_LimitDownHandling ==
    PoolDone =>
        /\ result.kind = "result"
        /\ Raised(UpPool) => /\ result.ok = FALSE
                             /\ FnsCalled = <<UpPool>>
        /\ ~Raised(UpPool) =>
               /\ result.ok = TRUE
               /\ ~Raised(FirstDown) =>
                      /\ FnsCalled = <<UpPool, FirstDown>>
                      /\ "down_error" \notin DOMAIN result.data
                      /\ result.data.down_api = FirstDown
               /\ (Raised(FirstDown) /\ ~Raised(SecondDown)) =>
                      /\ FnsCalled = <<UpPool, FirstDown, SecondDown>>
                      /\ "down_error" \notin DOMAIN result.data
                      /\ result.data.down_api = SecondDown
               /\ (Raised(FirstDown) /\ Raised(SecondDown)) =>
                      /\ FnsCalled = <<UpPool, FirstDown, SecondDown>>
                      /\ result.data.down_count = 0
                      /\ result.data.down_items = List(<<>>)
                      /\ "down_api" \notin DOMAIN result.data
                      /\ "down_error" \in DOMAIN result.data
                      /\ result.data.down_error = BothDownErrors
C30_Witness ==
    /\ PoolDone
    /\ ~Raised(UpPool) /\ Raised(FirstDown) /\ Raised(SecondDown)
    /\ Len(calls) = 3
    /\ result.ok = TRUE
    /\ result.data.up_count = 2
    /\ result.data.down_count = 0
    /\ Len(result.data.down_error) = 7
C30_WitnessUpFails ==
    /\ PoolDone
    /\ Raised(UpPool) /\ ~Raised(FirstDown)
    /\ Len(calls) = 1
    /\ result.ok = FALSE
C30_WitnessSecondAnswers ==
    /\ PoolDone
    /\ ~Raised(UpPool) /\ Raised(FirstDown) /\ ~Raised(SecondDown)
    /\ Len(calls) = 3
    /\ result.ok = TRUE
    /\ result.data.down_count = 2

\* ------------------------------------- the resolver on its own

ResolverFns == {"stock_sector_name_code", "stock_sector_spot"}
KwPool ==
    << <<>>,
       << <<"sector_type", <<"hangye">> >> >>,
       << <<"indicator", <<"jinri">> >>, <<"sector_type", <<"hangye">> >> >> >>
ResolverKws == {KwPool[n] : n \in 1..MaxArgs}
ResolverOutcomes == {Raise(<<"boom">>), Ok(NoPayload), Ok(Table(<< <<"r1">> >>))}

\* kwargs lists: the first n argument sets of KwPool, n <= MaxArgs
KwargsLists == {SubSeq(KwPool, 1, n) : n \in 0..MaxArgs}
CandidateEntries == [fn : ResolverFns, kwargs_list : KwargsLists]

RECURSIVE SeqsUpTo(_, _)
SeqsUpTo(S, n) ==
    IF n = 0 THEN {<<>>}
    ELSE LET shorter == SeqsUpTo(S, n - 1)
         IN  shorter \cup {Append(s, x) : s \in {t \in shorter : Len(t) = n - 1}, x \in S}

CandidateLists == SeqsUpTo(CandidateEntries, MaxCands)

\* every behaviour of the operations that exist (one that does not exist
\* is never called: its entry is fixed)
CapsWith(h) ==
    {[ready |-> TRUE, has |-> h, out |-> o, byfn |-> <<>>] :
        o \in {f \in [ResolverFns \X ResolverKws -> ResolverOutcomes] :
                 \A c \in DOMAIN f : c[1] \notin h => f[c] = Raise(<<"boom">>)}}
ResolverCaps == UNION {CapsWith(h) : h \in SUBSET ResolverFns}


InitResolve ==
    /\ pc = "start"
    /\ req \in [op : {"_call_api_candidates"}, candidates : CandidateLists]
    /\ ak \in ResolverCaps
    /\ now = 0
    /\ calls = <<>>
    /\ sections = NoSections
    /\ scan = NoScan
    /\ poolenv = NoPool
    /\ result = NoResult

Resolve ==
    /\ pc = "start"
    /\ req.op = "_call_api_candidates"
    /\ LET r == CallApiCandidates(ak, req.candidates)
       IN  /\ result' = [kind |-> "triple", api |-> r.api, payload |-> r.payload, err |-> r.err]
           /\ calls' = r.calls
    /\ pc' = "done"
    /\ UNCHANGED <<req, ak, now, sections, scan, poolenv>>

NextResolve == Resolve

SpecResolve == InitResolve /\ [][NextResolve]_vars

\* the listed order: every (operation, argument-set) pair of the operations
\* that exist on the capability, all argument sets of one operation before
\* the next operation
RECURSIVE ListedPairs(_, _)
ListedPairs(cap, candidates) ==
    IF candidates = <<>> THEN <<>>
    ELSE LET e == candidates[1]
             n == IF e.kwargs_list = <<>> THEN 1 ELSE Len(e.kwargs_list)
             kwAt(j) == IF e.kwargs_list = <<>> THEN <<>> ELSE e.kwargs_list[j]
             own == IF e.fn \in cap.has
                    THEN [j \in 1..n |-> Call(e.fn, kwAt(j), Invoke(cap, e.fn, kwAt(j)))]
                    ELSE <<>>
         IN  own \o ListedPairs(cap, Tail(candidates))

Listed == ListedPairs(ak, req.candidates)
OutcomeOf(c) == Invoke(ak, c.fn, c.kw)
Resolved == pc = "done" /\ req.op = "_call_api_candidates"

\* C1: when pair k of the listed order succeeds and every pair before it
\* fails, the resolver returns k's operation name and k's payload with an
\* empty error, and the invocations made are exactly the first k pairs: no
\* pair after k is invoked.
C1_FirstSuccessIsTerminal ==
    Resolved =>
        \A k \in 1..Len(Listed) :
            (/\ OutcomeOf(Listed[k]).kind = "ok"
             /\ \A m \in 1..(k - 1) : OutcomeOf(Listed[m]).kind = "raise")
            => /\ result.api = Listed[k].fn
               /\ result.payload = OutcomeOf(Listed[k]).payload
               /\ result.err = <<>>
               /\ calls = SubSeq(Listed, 1, k)

C1_Witness ==
    /\ Resolved
    /\ Len(Listed) >= 3
    /\ OutcomeOf(Listed[1]).kind = "raise"
    /\ OutcomeOf(Listed[2]).kind = "ok"
    /\ OutcomeOf(Listed[3]).kind = "ok"
    /\ Listed[3].fn # Listed[2].fn
    /\ result.api = Listed[2].fn
    /\ Len(calls) = 2

\* C2: when every listed pair fails, the resolver returns no operation and
\* no payload, and its error is the entries "{operation}({args}): {error}"
\* of the attempted pairs, one per pair, in attempt order, joined by "; ".
C2_AllFailTrace ==
    (Resolved /\ Listed # <<>> /\ \A k \in 1..Len(Listed) : OutcomeOf(Listed[k]).kind = "raise")
    => /\ result.api = None
       /\ result.payload = NoPayload
       /\ calls = Listed
       /\ result.err = Join([k \in 1..Len(Listed) |->
                               ErrorEntry(Listed[k].fn, Listed[k].kw, OutcomeOf(Listed[k]).msg)],
                            "; ")
       /\ Cardinality({p \in 1..Len(result.err) : result.err[p] = "; "}) = Len(Listed) - 1

C2_Witness ==
    /\ Resolved
    /\ Len(Listed) >= 3
    /\ \A k \in 1..Len(Listed) : OutcomeOf(Listed[k]).kind = "raise"
    /\ \E k \in 1..Len(Listed) : Listed[k].fn # Listed[1].fn
    /\ result.api = None

\* C3: the invocations of a run are a prefix of the listed order, so each
\* listed pair is invoked at most once, with no retry and no reordering.
C3_CallsArePrefixOfListed ==
    Resolved => \E n \in 0..Len(Listed) : calls = SubSeq(Listed, 1, n)

C3_Witness ==
    /\ Resolved
    /\ Len(Listed) = 4
    /\ Len(calls) = 3
    /\ calls[2].fn = calls[1].fn
    /\ calls[2].kw # calls[1].kw
    /\ calls[3].fn # calls[1].fn

\* the candidates whose operation exists on the capability, and the number
\* of argument sets tried for them ([{}] stands in for an empty list)
Existing == {k \in 1..Len(req.candidates) : req.candidates[k].fn \in ak.has}
RECURSIVE PairsOf(_)
PairsOf(ks) ==
    IF ks = {} THEN 0
    ELSE LET k == CHOOSE x \in ks : TRUE
             n == Len(req.candidates[k].kwargs_list)
         IN  (IF n = 0 THEN 1 ELSE n) + PairsOf(ks \ {k})

\* the entries of a trace begin with the name of their operation
EntriesOf(err) == {p \in 1..Len(err) : err[p] \in ResolverFns}

\* C26: when no operation of the candidate list exists on the capability the
\* resolver invokes nothing and returns failure with the message "no callable
\* api found"; an operation that does not exist is skipped and leaves no
\* entry in the trace: when every existing operation fails, the trace holds
\* one entry for each argument set of the existing operations and none for
\* the others
C26_MissingOperationsSkipped ==
    Resolved =>
        /\ \A n \in 1..Len(calls) : calls[n].fn \in ak.has
        /\ Existing = {} =>
               /\ calls = <<>>
               /\ result.api = None
               /\ result.payload = NoPayload
               /\ result.err = <<"no callable api found">>
               /\ Len(result.err) > 0
        /\ (Existing # {} /\ \A n \in 1..Len(calls) : calls[n].kind = "raise") =>
               /\ result.api = None
               /\ result.payload = NoPayload
               /\ Len(calls) = PairsOf(Existing)
               /\ Cardinality(EntriesOf(result.err)) = PairsOf(Existing)
               /\ \A p \in EntriesOf(result.err) : result.err[p] \in ak.has
C26_Witness ==
    /\ Resolved
    /\ Len(req.candidates) = 2
    /\ req.candidates[1].fn \notin ak.has
    /\ req.candidates[2].fn \in ak.has
    /\ Len(req.candidates[2].kwargs_list) = 2
    /\ Len(calls) = 2
    /\ result.api = None
    /\ result.err # <<"no callable api found">>
C26_WitnessNoneExists ==
    /\ Resolved
    /\ Len(req.candidates) = 2
    /\ req.candidates[1].fn # req.candidates[2].fn
    /\ ak.has = {}
    /\ calls = <<>>
    /\ result.err = <<"no callable api found">>

=============================================================================
